---- MODULE Spec2Model ----
(***************************************************************************)
(* conduit: typed JSON messages over a Unix domain socket.                 *)
(*                                                                         *)
(* The module models the server (server.go), the client (client.go), the   *)
(* size-limited reader (limited_reader.go) and the message envelope        *)
(* (types.go).  Every goroutine is a process with a program counter; a     *)
(* critical section that cannot block inside is one action.  Time is not   *)
(* measured: with a read deadline configured (cfgReadTimeout) a read that  *)
(* would block may return a timeout; no write deadline is modelled.        *)
(***************************************************************************)
EXTENDS Integers, Sequences, FiniteSets, TLC

(***************************************************************************)
(* Bounds of the model.                                                    *)
(***************************************************************************)
\* connections the peers of one server open
MaxConns == 2
\* messages all peers of the server write, in total
MaxSends == 2
\* goroutines that call Server.Stop
MaxStoppers == 2
\* messages all peers write while the server is shut down around them
MaxLifeSends == 1
\* size limit of the configuration, in bytes (scaled down from 32 MiB)
MaxMessageSize == 6

\* transports one client dials
MaxDials == 2
\* times the server of a client goes away or breaks a connection
MaxOutages == 1
\* goroutines that call Client.Close
MaxClosers == 2
\* calls of Client.Send
MaxCliSends == 2

Conns == 1..MaxConns
Stoppers == 1..MaxStoppers
Dials == 1..MaxDials
Closers == 1..MaxClosers

(***************************************************************************)
(* Message envelope: types.go.  A payload value is a Go string, a sequence *)
(* of characters; DQ is the double quote and BS the backslash, the two     *)
(* characters json.Marshal escapes.  XFF is a byte that is no UTF-8:       *)
(* json.Marshal writes it as the escape \ufffd, which json.Unmarshal reads  *)
(* as the replacement character RC.                                        *)
(***************************************************************************)
DQ == "dq"
BS == "bs"
XFF == "xff"
RC == "rc"

RECURSIVE Escape(_)
Escape(v) ==
    IF v = <<>> THEN <<>>
    ELSE (IF Head(v) \in {DQ, BS} THEN <<BS, Head(v)>>
          ELSE IF Head(v) = XFF THEN <<BS, "ufffd">>
          ELSE <<Head(v)>>)
         \o Escape(Tail(v))

\* a decoder that leaves the escapes in place
UnescapeNothing(b) == b

RECURSIVE Unescape(_)
Unescape(b) ==
    IF b = <<>> THEN <<>>
    ELSE IF Head(b) = BS /\ Len(b) >= 2
         THEN <<IF b[2] = "ufffd" THEN RC ELSE b[2]>> \o Unescape(Tail(Tail(b)))
         ELSE <<Head(b)>> \o Unescape(Tail(b))

\* json.Marshal of a string value
Marshal(v) == <<DQ>> \o Escape(v) \o <<DQ>>

\* json.Unmarshal of payload bytes into a string target
Unmarshal(b) ==
    IF Len(b) >= 2 /\ b[1] = DQ /\ b[Len(b)] = DQ
    THEN [err |-> FALSE, val |-> Unescape(SubSeq(b, 2, Len(b) - 1))]
    ELSE [err |-> TRUE, val |-> <<>>]

\* conduit.NewMessage(msgType, payload)
NewMessage(t, v) == [type |-> t, payload |-> Marshal(v), wf |-> TRUE]

\* bytes that are no JSON document
Garbage == [type |-> "", payload |-> <<"x">>, wf |-> FALSE]

\* bytes one message takes on the wire (the frame around the payload is
\* the same for every message and is left out of the scale)
WireSize(m) == Len(m.payload)

RECURSIVE WireBytes(_)
WireBytes(w) == IF w = <<>> THEN 0 ELSE WireSize(Head(w)) + WireBytes(Tail(w))

(***************************************************************************)
(* Message types of the driver: "echo" has a handler that replies, "fail"  *)
(* a handler that returns an error, "mystery" is never registered.         *)
(***************************************************************************)
Types == {"echo", "fail", "mystery"}
Values == {<<"h">>, <<DQ>>}

\* what a peer may write: a message, or bytes that are no JSON
PeerMsgs ==
    {NewMessage("echo", v) : v \in Values}
    \cup {NewMessage("fail", <<"h">>), NewMessage("mystery", <<"h">>), Garbage}

VARIABLES
    \* ---- server: Server struct and the driver that owns it
    mainPc,          \* driver: Handle, Handle, Start
    sHandlers,       \* s.handlers: type -> handler name, "none" when absent
    lstate,          \* the listener Start created: none, open, closed
    sListener,       \* s.listener # nil
    sockFile,        \* the socket path exists
    startRet,        \* what Start returned
    sDone,           \* s.done is closed
    sOnce,           \* s.closeOnce: idle, running, done
    sMuR,            \* goroutines holding s.mu for reading
    stopPc,          \* per Stop caller
    stopErr,         \* err of the running Stop closure
    stopRet,         \* what each Stop call returned
    stopFirst,       \* the caller that ran the closure, 0 before
    listenerCloses,  \* calls of Close on the listener
    accPc,           \* acceptConnections
    accCur,          \* the connection Accept returned
    \* ---- per connection
    dial,            \* none, backlog, accepted
    conns,           \* s.conns
    rlPc,            \* handleConnection
    cDone,           \* c.done is closed
    tCloses,         \* calls of c.conn.Close
    closedBy,        \* who closed c.done
    extRet,          \* what Close returned to a caller outside the server
    peerClosed,      \* the peer closed its end
    inWire,          \* messages written by the peer, not yet decoded
    buffered,        \* bytes of inWire in the decoder's buffer
    consumed,        \* LimitedReader.consumed
    cur,             \* the message Decode returned
    curH,            \* the handler the lookup returned
    outWire,         \* messages written to the peer
    handled,         \* handler invocations: type and decoded payload
    sentLog,         \* messages the peer wrote, in order
    nSends,          \* messages written by all peers
    \* ---- Broadcast
    bcPc,            \* Broadcast: idle, iter, done
    bcSnap,          \* s.conns when Broadcast took the read lock
    bcTodo,          \* connections the loop has not reached yet
    bcGot,           \* connections whose Send returned nil
    bcRet,           \* what Broadcast returned
    \* ---- the process: main() runs the server or the client
    role,
    \* ---- client: Client struct and the driver that owns it
    cfgReconnect,    \* config.Reconnect
    userPc,          \* driver: Handle, Handle, Connect
    userConn,        \* conn, the local variable of the driver's Connect
    connectRet,      \* what the driver's Connect returned
    cliHandlers,     \* c.handlers
    cliConn,         \* c.conn: a transport, 0 when nil
    cliDone,         \* c.done is closed
    cliOnce,         \* c.closeOnce: idle, running, done
    closePc,         \* per Close caller
    closeRet,        \* what each Close call returned
    closeFirst,      \* the caller that ran the closure, 0 before
    closedConn,      \* the transport that closure closed, 0 when none
    \* ---- per transport the client dialed
    nDials,          \* transports dialed so far
    cliCloses,       \* calls of Close on the client's end
    remoteClosed,    \* the server closed its end
    down,            \* messages written by the server, not yet decoded
    up,              \* messages the client wrote
    \* ---- per read loop; loop g is the one started for transport g
    lpPc,            \* handleMessages and the ConnectWithRetry of its teardown
    lpConn,          \* the transport the loop's decoder reads
    lpNew,           \* conn, the local variable of the teardown's Connect
    lpBuf,           \* bytes in the decoder's buffer
    lpCons,          \* LimitedReader.consumed
    lpCur,           \* the message Decode returned
    lpH,             \* the handler the lookup returned
    cliHandled,      \* handler invocations: type and decoded payload
    downLog,         \* messages the server wrote, in order
    nDown,           \* messages the server wrote, in all
    \* ---- Client.Send
    nCliSends,       \* calls so far
    sendRet,         \* what the last call returned
    sendOn,          \* c.conn at that call
    sendLive,        \* whether that transport was open at both ends
    sendIdle,        \* whether no read loop, Connect or Close was running
    \* ---- the server the client talks to
    srvUp,           \* a server listens on the socket path
    nOutages,        \* times the server broke a connection or went away
    \* ---- what the drivers are given
    userApi,         \* the driver calls Connect ("connect") or ConnectWithRetry ("retry")
    bcPayload,       \* the payload handed to Broadcast
    \* ---- a LimitedReader on its own
    lrConsumed,      \* LimitedReader.consumed
    lrPrev,          \* consumed before the last Read
    lrIn,            \* what the underlying reader returned to the last Read
    lrRet,           \* what the last Read returned
    \* ---- the context stores
    connCtx,         \* c.context of each connection: key -> value
    cliCtx,          \* c.context of the client
    ctxGot,          \* what the last GetContext returned
    ctxAsked,        \* the store and key of that GetContext
    ctxLast,         \* per store and key, the value of the latest SetContext
    \* ---- the configuration's read deadline
    cfgReadTimeout,  \* config.ReadTimeout > 0
    \* ---- a message envelope on its own
    envT,            \* the type handed to NewMessage
    envV,            \* the value handed to NewMessage
    envMsg,          \* the message NewMessage returned, NoMsg before
    envErr,          \* NewMessage returned an error
    envOut           \* what the calls of UnmarshalPayload on envMsg returned, in order

lifeVars == <<mainPc, sHandlers, lstate, sListener, sockFile, startRet>>
stopVars == <<sDone, sOnce, stopPc, stopErr, stopRet, stopFirst, listenerCloses>>
accVars == <<accPc, accCur, dial, conns>>
closeVars == <<cDone, tCloses, closedBy, extRet>>
loopVars == <<rlPc, buffered, consumed, cur, curH, handled>>
wireVars == <<peerClosed, inWire, outWire, sentLog, nSends>>
bcVars == <<sMuR, bcPc, bcSnap, bcTodo, bcGot, bcRet>>

serverVars == <<lifeVars, stopVars, accVars, closeVars, loopVars, wireVars, bcVars>>

userVars == <<cfgReconnect, userPc, userConn, connectRet, cliHandlers>>
cliStateVars == <<cliConn, cliDone, cliOnce, closePc, closeRet, closeFirst, closedConn>>
transVars == <<nDials, cliCloses, remoteClosed, down, up, downLog, nDown, srvUp, nOutages>>
cliLoopVars == <<lpPc, lpConn, lpNew, lpBuf, lpCons, lpCur, lpH, cliHandled>>
sendVars == <<nCliSends, sendRet, sendOn, sendLive, sendIdle>>

clientVars == <<userVars, cliStateVars, transVars, cliLoopVars, sendVars>>

inputVars == <<role, userApi, bcPayload, cfgReadTimeout, envT, envV>>
readerVars == <<lrConsumed, lrPrev, lrIn, lrRet>>
ctxVars == <<connCtx, cliCtx, ctxGot, ctxAsked, ctxLast>>
envVars == <<envMsg, envErr, envOut>>
unitVars == <<readerVars, ctxVars, envVars>>

vars == <<inputVars, unitVars, serverVars, clientVars>>

NoMsg == [type |-> "", payload |-> <<>>, wf |-> FALSE]

\* NewServer
InitServer ==
    /\ mainPc = "handle_echo"
    /\ sHandlers = [t \in Types |-> "none"]
    /\ lstate = "none"
    /\ sListener = FALSE
    /\ sockFile = FALSE
    /\ startRet = "none"
    /\ sDone = FALSE
    /\ sOnce = "idle"
    /\ sMuR = 0
    /\ stopPc = [k \in Stoppers |-> "idle"]
    /\ stopErr = "nil"
    /\ stopRet = [k \in Stoppers |-> "none"]
    /\ stopFirst = 0
    /\ listenerCloses = 0
    /\ accPc = "off"
    /\ accCur = 0
    /\ dial = [c \in Conns |-> "none"]
    /\ conns = {}
    /\ rlPc = [c \in Conns |-> "none"]
    /\ cDone = [c \in Conns |-> FALSE]
    /\ tCloses = [c \in Conns |-> 0]
    /\ closedBy = [c \in Conns |-> "none"]
    /\ extRet = [c \in Conns |-> "none"]
    /\ peerClosed = [c \in Conns |-> FALSE]
    /\ inWire = [c \in Conns |-> <<>>]
    /\ buffered = [c \in Conns |-> 0]
    /\ consumed = [c \in Conns |-> 0]
    /\ cur = [c \in Conns |-> NoMsg]
    /\ curH = [c \in Conns |-> "none"]
    /\ outWire = [c \in Conns |-> <<>>]
    /\ handled = [c \in Conns |-> <<>>]
    /\ sentLog = [c \in Conns |-> <<>>]
    /\ nSends = 0
    /\ bcPc = "idle"
    /\ bcSnap = {}
    /\ bcTodo = {}
    /\ bcGot = {}
    /\ bcRet = "none"

\* NewClient
InitClient ==
    /\ userPc = "handle_echo"
    /\ userConn = 0
    /\ connectRet = "none"
    /\ cliHandlers = [t \in Types |-> "none"]
    /\ cliConn = 0
    /\ cliDone = FALSE
    /\ cliOnce = "idle"
    /\ closePc = [k \in Closers |-> "idle"]
    /\ closeRet = [k \in Closers |-> "none"]
    /\ closeFirst = 0
    /\ closedConn = 0
    /\ nDials = 0
    /\ cliCloses = [t \in Dials |-> 0]
    /\ remoteClosed = [t \in Dials |-> FALSE]
    /\ down = [t \in Dials |-> <<>>]
    /\ up = [t \in Dials |-> <<>>]
    /\ downLog = [t \in Dials |-> <<>>]
    /\ nDown = 0
    /\ lpPc = [g \in Dials |-> "none"]
    /\ lpConn = [g \in Dials |-> 0]
    /\ lpNew = [g \in Dials |-> 0]
    /\ lpBuf = [g \in Dials |-> 0]
    /\ lpCons = [g \in Dials |-> 0]
    /\ lpCur = [g \in Dials |-> NoMsg]
    /\ lpH = [g \in Dials |-> "none"]
    /\ cliHandled = [g \in Dials |-> <<>>]
    /\ nCliSends = 0
    /\ sendRet = "none"
    /\ sendOn = 0
    /\ sendLive = FALSE
    /\ sendIdle = FALSE
    /\ nOutages = 0

\* the drivers of the example programs: Connect, a payload that serialises,
\* no read deadline (ReadTimeout = 0: a read never times out)
DefaultApi == userApi = "connect"
DefaultPayload == bcPayload = <<"h">>
NoReadTimeout == cfgReadTimeout = FALSE
DefaultEnvelope == envT = "echo" /\ envV = <<>>

InitInputs ==
    /\ DefaultApi
    /\ DefaultPayload
    /\ NoReadTimeout
    /\ DefaultEnvelope

\* keys and values of the context stores
Keys == {"foo", "user_id"}
CtxValues == {"bar", "42"}

\* the stores: one per connection, and the client's, written 0
ClientStore == 0
Stores == Conns \cup {ClientStore}
NoValue == [val |-> "nil", ok |-> FALSE]

\* NewLimitedReader; context: make(map[string]interface{}) of a Connection and of NewClient
InitUnits ==
    /\ lrConsumed = 0
    /\ lrPrev = 0
    /\ lrIn = [n |-> 0, err |-> "nil"]
    /\ lrRet = [n |-> 0, err |-> "nil"]
    /\ connCtx = [c \in Conns |-> [k \in {} |-> "nil"]]
    /\ cliCtx = [k \in {} |-> "nil"]
    /\ ctxGot = NoValue
    /\ ctxAsked = <<>>
    /\ ctxLast = [s \in Stores |-> [k \in Keys |-> "unset"]]
    /\ envMsg = NoMsg
    /\ envErr = FALSE
    /\ envOut = <<>>

(***************************************************************************)
(* Server.Handle and Server.Start, called by the driver in program order.  *)
(***************************************************************************)
\* a registry in which the first handler of a type stays
HandleFirstWins(t, h) ==
    /\ sMuR = 0
    /\ sHandlers' = [sHandlers EXCEPT ![t] = IF @ = "none" THEN h ELSE @]

\* s.handlers[msgType] = handler, under s.mu.Lock
Handle(t, h) ==
    /\ sMuR = 0
    /\ sHandlers' = [sHandlers EXCEPT ![t] = h]

MainHandle ==
    /\ role = "server"
    /\ mainPc \in {"handle_echo", "handle_fail"}
    /\ IF mainPc = "handle_echo" THEN Handle("echo", "echo") ELSE Handle("fail", "fail")
    /\ mainPc' = IF mainPc = "handle_echo" THEN "handle_fail" ELSE "start"
    /\ UNCHANGED <<lstate, sListener, sockFile, startRet>>
    /\ UNCHANGED <<stopVars, accVars, closeVars, loopVars, wireVars, bcVars>>
    /\ UNCHANGED <<inputVars, unitVars, clientVars>>

\* a Start that returns on a failed Chmod without closing what it opened
ListenerAfterLeak(outcome, l) ==
    IF outcome \in {"ok", "chmod_failed"} THEN "open" ELSE l

\* the listener net.Listen made, after Start's three calls: a failed Chmod
\* is followed by listener.Close()
ListenerAfter(outcome, l) ==
    CASE outcome = "ok" -> "open"
      [] outcome = "chmod_failed" -> "closed"
      [] OTHER -> l

\* Start up to the point where the listener exists: os.RemoveAll, net.Listen, os.Chmod
StartListen ==
    /\ mainPc = "start"
    /\ \E outcome \in {"ok", "remove_failed", "listen_failed", "chmod_failed"} :
         /\ mainPc' = IF outcome = "ok" THEN "assign" ELSE "failed"
         /\ startRet' = IF outcome = "ok" THEN startRet ELSE "err"
         /\ lstate' = ListenerAfter(outcome, lstate)
         /\ sockFile' = CASE outcome = "ok" -> TRUE
                          [] outcome = "remove_failed" -> sockFile
                          [] OTHER -> FALSE
    /\ UNCHANGED <<sHandlers, sListener>>
    /\ UNCHANGED <<stopVars, accVars, closeVars, loopVars, wireVars, bcVars>>
    /\ UNCHANGED <<inputVars, unitVars, clientVars>>

\* s.listener = listener; go s.acceptConnections(); return nil
StartAssign ==
    /\ mainPc = "assign"
    /\ mainPc' = "running"
    /\ sListener' = TRUE
    /\ startRet' = "nil"
    /\ accPc' = "accept"
    /\ UNCHANGED <<sHandlers, lstate, sockFile, accCur, dial, conns>>
    /\ UNCHANGED <<stopVars, closeVars, loopVars, wireVars, bcVars>>
    /\ UNCHANGED <<inputVars, unitVars, clientVars>>

(***************************************************************************)
(* Connection.Close: under c.mu, close c.done and the transport unless     *)
(* c.done is already closed.                                               *)
(***************************************************************************)
\* a Close without the check of c.done
AlreadyClosedNever(c) == FALSE

\* case <-c.done: already closed
AlreadyClosed(c) == cDone[c]

\* the effect of conn.Close() called by `who` on the variables of closeVars
ConnClose(c, who, done, closes, by) ==
    IF AlreadyClosed(c)
    THEN [done |-> done, closes |-> closes, by |-> by]
    ELSE [done |-> [done EXCEPT ![c] = TRUE],
          closes |-> [closes EXCEPT ![c] = @ + 1],
          by |-> [by EXCEPT ![c] = who]]

\* conn.Close() on every connection of a set, as Stop's loop over s.conns does
\* a Stop that leaves the connections as they are
CloseAllNothing(S, who, done, closes, by) ==
    [done |-> done, closes |-> closes, by |-> by]

RECURSIVE CloseAll(_, _, _, _, _)
CloseAll(S, who, done, closes, by) ==
    IF S = {} THEN [done |-> done, closes |-> closes, by |-> by]
    ELSE LET c == CHOOSE x \in S : TRUE
             r == ConnClose(c, who, done, closes, by)
         IN CloseAll(S \ {c}, who, r.done, r.closes, r.by)

\* a handler or another goroutine that holds the connection calls Close
ExtClose(c) ==
    /\ c \in conns
    /\ extRet[c] = "none"
    /\ LET r == ConnClose(c, "ext", cDone, tCloses, closedBy)
       IN /\ cDone' = r.done
          /\ tCloses' = r.closes
          /\ closedBy' = r.by
          /\ \E failed \in BOOLEAN :
               extRet' = [extRet EXCEPT ![c] =
                   IF r.closes[c] > tCloses[c] /\ failed THEN "err" ELSE "nil"]
    /\ UNCHANGED <<lifeVars, stopVars, accVars, loopVars, wireVars, bcVars>>
    /\ UNCHANGED <<inputVars, unitVars, clientVars>>

(***************************************************************************)
(* Server.Stop: s.closeOnce.Do(func() {...}); return err                   *)
(***************************************************************************)
\* a Stop without closeOnce: every caller runs the function
OnceFirstAlways == TRUE

\* sync.Once: the first caller runs the function
OnceFirst == sOnce = "idle"

\* the first caller enters the closure: close(s.done)
StopEnter(k) ==
    /\ role = "server"
    /\ stopPc[k] = "idle"
    /\ OnceFirst
    /\ sOnce' = "running"
    /\ sDone' = TRUE
    /\ stopErr' = "nil"
    /\ stopFirst' = k
    /\ stopPc' = [stopPc EXCEPT ![k] = "closeall"]
    /\ UNCHANGED <<stopRet, listenerCloses>>
    /\ UNCHANGED <<lifeVars, accVars, closeVars, loopVars, wireVars, bcVars>>
    /\ UNCHANGED <<inputVars, unitVars, clientVars>>

\* s.mu.Lock(); close the listener if set; conn.Close() for each; s.mu.Unlock()
StopCloseAll(k) ==
    /\ stopPc[k] = "closeall"
    /\ sMuR = 0
    /\ \E failed \in BOOLEAN :
         IF sListener
         THEN /\ lstate' = "closed"
              /\ sockFile' = FALSE
              /\ listenerCloses' = listenerCloses + 1
              /\ stopErr' = IF failed THEN "err" ELSE "nil"
         ELSE /\ failed = FALSE
              /\ UNCHANGED <<lstate, sockFile, listenerCloses, stopErr>>
    /\ LET r == CloseAll(conns, "stop", cDone, tCloses, closedBy)
       IN /\ cDone' = r.done
          /\ tCloses' = r.closes
          /\ closedBy' = r.by
    /\ stopPc' = [stopPc EXCEPT ![k] = "remove"]
    /\ UNCHANGED <<mainPc, sHandlers, sListener, startRet, sDone, sOnce, stopRet, stopFirst, extRet>>
    /\ UNCHANGED <<accVars, loopVars, wireVars, bcVars>>
    /\ UNCHANGED <<inputVars, unitVars, clientVars>>

\* os.RemoveAll(path); err = err2 when err == nil; the closure returns
StopRemove(k) ==
    /\ stopPc[k] = "remove"
    /\ \E failed \in BOOLEAN :
         /\ sockFile' = IF failed THEN sockFile ELSE FALSE
         /\ LET err == IF failed /\ stopErr = "nil" THEN "err" ELSE stopErr
            IN /\ stopErr' = err
               /\ stopRet' = [stopRet EXCEPT ![k] = err]
    /\ sOnce' = "done"
    /\ stopPc' = [stopPc EXCEPT ![k] = "returned"]
    /\ UNCHANGED <<mainPc, sHandlers, lstate, sListener, startRet, sDone, stopFirst, listenerCloses>>
    /\ UNCHANGED <<accVars, closeVars, loopVars, wireVars, bcVars>>
    /\ UNCHANGED <<inputVars, unitVars, clientVars>>

\* a caller that finds the Once taken blocks until the closure returned
StopBlock(k) ==
    /\ stopPc[k] = "idle"
    /\ ~OnceFirst
    /\ stopPc' = [stopPc EXCEPT ![k] = "wait"]
    /\ UNCHANGED <<sDone, sOnce, stopErr, stopRet, stopFirst, listenerCloses>>
    /\ UNCHANGED <<lifeVars, accVars, closeVars, loopVars, wireVars, bcVars>>
    /\ UNCHANGED <<inputVars, unitVars, clientVars>>

\* ... and returns its own err, which nothing assigned
StopReturnNil(k) ==
    /\ stopPc[k] = "wait"
    /\ sOnce = "done"
    /\ stopPc' = [stopPc EXCEPT ![k] = "returned"]
    /\ stopRet' = [stopRet EXCEPT ![k] = "nil"]
    /\ UNCHANGED <<sDone, sOnce, stopErr, stopFirst, listenerCloses>>
    /\ UNCHANGED <<lifeVars, accVars, closeVars, loopVars, wireVars, bcVars>>
    /\ UNCHANGED <<inputVars, unitVars, clientVars>>

(***************************************************************************)
(* Server.acceptConnections                                                *)
(***************************************************************************)
\* conn, err := s.listener.Accept() returns a connection
AcceptConn(c) ==
    /\ accPc = "accept"
    /\ lstate = "open"
    /\ dial[c] = "backlog"
    /\ dial' = [dial EXCEPT ![c] = "accepted"]
    /\ accCur' = c
    /\ accPc' = "register"
    /\ UNCHANGED conns
    /\ UNCHANGED <<lifeVars, stopVars, closeVars, loopVars, wireVars, bcVars>>
    /\ UNCHANGED <<inputVars, unitVars, clientVars>>

\* s.mu.Lock(); s.conns[clientConn] = struct{}{}; s.mu.Unlock(); go s.handleConnection
AcceptRegister ==
    /\ accPc = "register"
    /\ sMuR = 0
    /\ conns' = conns \cup {accCur}
    /\ rlPc' = [rlPc EXCEPT ![accCur] = "select"]
    /\ accCur' = 0
    /\ accPc' = "accept"
    /\ UNCHANGED dial
    /\ UNCHANGED <<buffered, consumed, cur, curH, handled>>
    /\ UNCHANGED <<lifeVars, stopVars, closeVars, wireVars, bcVars>>
    /\ UNCHANGED <<inputVars, unitVars, clientVars>>

\* an accept loop that ends on every failure
AfterAcceptErrorFatal(done) == "done"

\* select { case <-s.done: return; default: log; continue }
AfterAcceptError(done) == IF done THEN "done" ELSE "accept"

\* Accept failed: return when s.done is closed, else log and continue
AcceptError ==
    /\ accPc = "accept"
    /\ accPc' = AfterAcceptError(sDone)
    /\ UNCHANGED <<accCur, dial, conns>>
    /\ UNCHANGED <<lifeVars, stopVars, closeVars, loopVars, wireVars, bcVars>>
    /\ UNCHANGED <<inputVars, unitVars, clientVars>>

(***************************************************************************)
(* LimitedReader.Read and json.Decoder.Decode on top of it.                *)
(***************************************************************************)
\* l.consumed > l.limit
LimitExceeded(total) == total > MaxMessageSize

\* a reader that counts each read on its own
LimitedReadPerCall(cons, n, err) ==
    [consumed |-> n,
     n |-> n,
     err |-> IF LimitExceeded(n) THEN "limit" ELSE err]

\* LimitedReader.Read: the underlying read gave n bytes and err
LimitedRead(cons, n, err) ==
    [consumed |-> cons + n,
     n |-> n,
     err |-> IF LimitExceeded(cons + n) THEN "limit" ELSE err]

\* What the transport's Read can return: an error on a closed transport,
\* some of the bytes in flight, end of stream after the peer closed.
ReadChoices(closed, inflight, eof) ==
    IF closed THEN {[n |-> 0, err |-> "closed"]}
    ELSE IF inflight > 0 THEN {[n |-> k, err |-> "nil"] : k \in 1..inflight}
    ELSE IF eof THEN {[n |-> 0, err |-> "eof"]}
    ELSE {}

\* conn.SetReadDeadline(now + ReadTimeout) before Decode: a read that would
\* block returns a timeout error once the deadline has passed
WithDeadline(choices, deadline) ==
    IF deadline /\ choices = {} THEN {[n |-> 0, err |-> "timeout"]} ELSE choices

\* json.Decoder.readValue: the buffer is scanned first, and the error of the
\* last read is looked at only when the buffer holds no complete value.
DecodeScan(wire, buf, err) ==
    IF wire # <<>> /\ ~Head(wire).wf /\ buf >= 1 THEN "error"
    ELSE IF wire # <<>> /\ Head(wire).wf /\ buf >= WireSize(Head(wire)) THEN "value"
    ELSE IF err # "nil" THEN "error"
    ELSE "more"

\* a decoder that hands out the value that arrived last
LatestValue(wire) ==
    [msg |-> wire[Len(wire)], rest |-> SubSeq(wire, 1, Len(wire) - 1)]

\* Decode returns the first complete value of the stream and keeps the rest
FirstValue(wire) == [msg |-> Head(wire), rest |-> Tail(wire)]

(***************************************************************************)
(* Server.handleConnection                                                 *)
(***************************************************************************)
\* the state of the loop of connection c after a scan of its buffer
LoopAfterScan(c, buf, cons, err) ==
    LET r == DecodeScan(inWire[c], buf, err)
    IN /\ consumed' = [consumed EXCEPT ![c] = cons]
       /\ IF r = "value"
          THEN /\ cur' = [cur EXCEPT ![c] = FirstValue(inWire[c]).msg]
               /\ inWire' = [inWire EXCEPT ![c] = FirstValue(inWire[c]).rest]
               /\ buffered' = [buffered EXCEPT ![c] = buf - WireSize(FirstValue(inWire[c]).msg)]
               /\ rlPc' = [rlPc EXCEPT ![c] = "lookup"]
          ELSE /\ buffered' = [buffered EXCEPT ![c] = buf]
               /\ rlPc' = [rlPc EXCEPT ![c] = IF r = "error" THEN "close" ELSE "read"]
               /\ UNCHANGED <<cur, inWire>>

\* a loop that looks at its own connection's done channel only
ShutdownSeenOwn(c) == cDone[c]

\* select: case <-s.done, case <-conn.done
ShutdownSeen(c) == sDone \/ cDone[c]

\* select on s.done and conn.done, else Decode on what the buffer holds
SrvSelect(c) ==
    /\ rlPc[c] = "select"
    /\ IF ShutdownSeen(c)
       THEN /\ rlPc' = [rlPc EXCEPT ![c] = "close"]
            /\ UNCHANGED <<buffered, consumed, cur, inWire>>
       ELSE LoopAfterScan(c, buffered[c], consumed[c], "nil")
    /\ UNCHANGED <<curH, handled, peerClosed, outWire, sentLog, nSends>>
    /\ UNCHANGED <<lifeVars, stopVars, accVars, closeVars, bcVars>>
    /\ UNCHANGED <<inputVars, unitVars, clientVars>>

\* Decode blocks in a read of the transport
SrvRead(c) ==
    /\ rlPc[c] = "read"
    /\ \E rd \in WithDeadline(ReadChoices(tCloses[c] > 0,
                             WireBytes(inWire[c]) - buffered[c], peerClosed[c]),
                             cfgReadTimeout) :
         LET lr == LimitedRead(consumed[c], rd.n, rd.err)
         IN LoopAfterScan(c, buffered[c] + lr.n, lr.consumed, lr.err)
    /\ UNCHANGED <<curH, handled, peerClosed, outWire, sentLog, nSends>>
    /\ UNCHANGED <<lifeVars, stopVars, accVars, closeVars, bcVars>>
    /\ UNCHANGED <<inputVars, unitVars, clientVars>>

\* a lookup that takes every type as registered
HandlerExistsAlways(t) == TRUE

\* handler, exists := s.handlers[msg.Type], under s.mu.RLock
HandlerExists(t) == sHandlers[t] # "none"

SrvLookup(c) ==
    /\ rlPc[c] = "lookup"
    /\ IF HandlerExists(cur[c].type)
       THEN /\ curH' = [curH EXCEPT ![c] = sHandlers[cur[c].type]]
            /\ rlPc' = [rlPc EXCEPT ![c] = "handler"]
            /\ UNCHANGED cur
       ELSE /\ rlPc' = [rlPc EXCEPT ![c] = "select"]
            /\ cur' = [cur EXCEPT ![c] = NoMsg]
            /\ UNCHANGED curH
    /\ UNCHANGED <<buffered, consumed, handled>>
    /\ UNCHANGED <<lifeVars, stopVars, accVars, closeVars, wireVars, bcVars>>
    /\ UNCHANGED <<inputVars, unitVars, clientVars>>

\* a write on the server's end of the transport succeeds
WriteOk(c) == tCloses[c] = 0 /\ ~peerClosed[c]

\* Connection.Send: the wire after the write, unchanged when the write fails
ConnSend(c, t, v, out) ==
    IF WriteOk(c) THEN [out EXCEPT ![c] = Append(@, NewMessage(t, v))] ELSE out

\* what a handler writes to its connection: the echo handler of the tests
\* replies with the payload it decoded, the failing handler with nothing
HandlerReply(c, h, u, out) ==
    IF h = "echo" /\ ~u.err THEN ConnSend(c, "echo_response", u.val \o <<"r">>, out)
    ELSE out

\* a loop that gives up its connection when a handler fails
AfterHandlerFatal(failed) == IF failed THEN "close" ELSE "select"

\* if err := handler(conn, &msg); err != nil { log }: the loop goes on
AfterHandler(failed) == "select"

\* handler(conn, &msg); an error is logged
SrvHandler(c) ==
    /\ rlPc[c] = "handler"
    /\ LET u == Unmarshal(cur[c].payload)
           failed == curH[c] = "fail" \/ u.err \/ (curH[c] = "echo" /\ ~WriteOk(c))
       IN /\ outWire' = HandlerReply(c, curH[c], u, outWire)
          /\ handled' = [handled EXCEPT ![c] =
                 Append(@, [type |-> cur[c].type, val |-> u.val, err |-> failed])]
          /\ rlPc' = [rlPc EXCEPT ![c] = AfterHandler(failed)]
    /\ cur' = [cur EXCEPT ![c] = NoMsg]
    /\ curH' = [curH EXCEPT ![c] = "none"]
    /\ UNCHANGED <<buffered, consumed, peerClosed, inWire, sentLog, nSends>>
    /\ UNCHANGED <<lifeVars, stopVars, accVars, closeVars, bcVars>>
    /\ UNCHANGED <<inputVars, unitVars, clientVars>>

\* the deferred function: conn.Close()
SrvTeardownClose(c) ==
    /\ rlPc[c] = "close"
    /\ LET r == ConnClose(c, "loop", cDone, tCloses, closedBy)
       IN /\ cDone' = r.done
          /\ tCloses' = r.closes
          /\ closedBy' = r.by
    /\ UNCHANGED extRet
    /\ rlPc' = [rlPc EXCEPT ![c] = "delete"]
    /\ UNCHANGED <<buffered, consumed, cur, curH, handled>>
    /\ UNCHANGED <<lifeVars, stopVars, accVars, wireVars, bcVars>>
    /\ UNCHANGED <<inputVars, unitVars, clientVars>>

\* a teardown that leaves the registry as it is
DeleteConnNothing(S, c) == S

\* a teardown that empties the registry
DeleteConnEvery(S, c) == {}

\* delete(s.conns, conn)
DeleteConn(S, c) == S \ {c}

\* ... then s.mu.Lock(); delete(s.conns, conn); s.mu.Unlock()
SrvTeardownDelete(c) ==
    /\ rlPc[c] = "delete"
    /\ sMuR = 0
    /\ conns' = DeleteConn(conns, c)
    /\ rlPc' = [rlPc EXCEPT ![c] = "done"]
    /\ UNCHANGED <<accPc, accCur, dial>>
    /\ UNCHANGED <<buffered, consumed, cur, curH, handled>>
    /\ UNCHANGED <<lifeVars, stopVars, closeVars, wireVars, bcVars>>
    /\ UNCHANGED <<inputVars, unitVars, clientVars>>

\* a json.Marshal that serialises every value
MarshalFailsNever(v) == FALSE

\* json.Marshal returns an error for a value that holds a channel
MarshalFails(v) == \E i \in 1..Len(v) : v[i] = "chan"

\* a payload json.Marshal rejects
BadPayload == <<"chan">>

(***************************************************************************)
(* Server.Broadcast                                                        *)
(***************************************************************************)
\* NewMessage succeeded; s.mu.RLock(); the loop over s.conns starts
BroadcastBegin ==
    /\ bcPc = "idle"
    /\ ~MarshalFails(bcPayload)
    /\ conns # {}
    /\ bcPc' = "iter"
    /\ sMuR' = sMuR + 1
    /\ bcSnap' = conns
    /\ bcTodo' = conns
    /\ UNCHANGED <<bcGot, bcRet>>
    /\ UNCHANGED <<lifeVars, stopVars, accVars, closeVars, loopVars, wireVars>>
    /\ UNCHANGED <<inputVars, unitVars, clientVars>>

\* msg, err := conduit.NewMessage(msgType, payload); if err != nil { return err }
BroadcastFail ==
    /\ bcPc = "idle"
    /\ MarshalFails(bcPayload)
    /\ bcPc' = "done"
    /\ bcRet' = "err"
    /\ UNCHANGED <<sMuR, bcSnap, bcTodo, bcGot>>
    /\ UNCHANGED <<lifeVars, stopVars, accVars, closeVars, loopVars, wireVars>>
    /\ UNCHANGED <<inputVars, unitVars, clientVars>>

\* a Broadcast that gives up at the first Send error
BroadcastRestAbort(todo, c, ok) == IF ok THEN todo \ {c} ELSE {}

\* what the loop does after conn.Send returned an error: log and go on
BroadcastRest(todo, c, ok) == todo \ {c}

\* one iteration: conn.Send(msg.Type, msg.Payload)
BroadcastSend(c) ==
    /\ bcPc = "iter"
    /\ c \in bcTodo
    /\ outWire' = ConnSend(c, "announcement", bcPayload, outWire)
    /\ bcGot' = IF WriteOk(c) THEN bcGot \cup {c} ELSE bcGot
    /\ bcTodo' = BroadcastRest(bcTodo, c, WriteOk(c))
    /\ UNCHANGED <<sMuR, bcPc, bcSnap, bcRet>>
    /\ UNCHANGED <<peerClosed, inWire, sentLog, nSends>>
    /\ UNCHANGED <<lifeVars, stopVars, accVars, closeVars, loopVars>>
    /\ UNCHANGED <<inputVars, unitVars, clientVars>>

\* the loop is over: s.mu.RUnlock(); return nil
BroadcastEnd ==
    /\ bcPc = "iter"
    /\ bcTodo = {}
    /\ bcPc' = "done"
    /\ sMuR' = sMuR - 1
    /\ bcRet' = "nil"
    /\ UNCHANGED <<bcSnap, bcTodo, bcGot>>
    /\ UNCHANGED <<lifeVars, stopVars, accVars, closeVars, loopVars, wireVars>>
    /\ UNCHANGED <<inputVars, unitVars, clientVars>>

(***************************************************************************)
(* The peers of the server: processes that dial the socket, write and      *)
(* close.                                                                  *)
(***************************************************************************)
PeerDial(c) ==
    /\ dial[c] = "none"
    /\ \A d \in Conns : d < c => dial[d] # "none"
    /\ lstate = "open"
    /\ dial' = [dial EXCEPT ![c] = "backlog"]
    /\ UNCHANGED <<accPc, accCur, conns>>
    /\ UNCHANGED <<lifeVars, stopVars, closeVars, loopVars, wireVars, bcVars>>
    /\ UNCHANGED <<inputVars, unitVars, clientVars>>

PeerSend(c, m, cap) ==
    /\ dial[c] = "accepted" \/ (dial[c] = "backlog" /\ lstate = "open")
    /\ ~peerClosed[c]
    /\ tCloses[c] = 0
    /\ nSends < cap
    /\ inWire' = [inWire EXCEPT ![c] = Append(@, m)]
    /\ sentLog' = [sentLog EXCEPT ![c] = Append(@, m)]
    /\ nSends' = nSends + 1
    /\ UNCHANGED <<peerClosed, outWire>>
    /\ UNCHANGED <<lifeVars, stopVars, accVars, closeVars, loopVars, bcVars>>
    /\ UNCHANGED <<inputVars, unitVars, clientVars>>

PeerClose(c) ==
    /\ dial[c] # "none"
    /\ ~peerClosed[c]
    /\ peerClosed' = [peerClosed EXCEPT ![c] = TRUE]
    /\ UNCHANGED <<inWire, outWire, sentLog, nSends>>
    /\ UNCHANGED <<lifeVars, stopVars, accVars, closeVars, loopVars, bcVars>>
    /\ UNCHANGED <<inputVars, unitVars, clientVars>>

(***************************************************************************)
(* Client.Handle and Client.Connect, called by the driver in program       *)
(* order.                                                                  *)
(***************************************************************************)
\* c.handlers[msgType] = handler, under c.mu.Lock
CliHandle(t, h) == cliHandlers' = [cliHandlers EXCEPT ![t] = h]

UserHandle ==
    /\ role = "client"
    /\ userPc \in {"handle_echo", "handle_fail"}
    /\ IF userPc = "handle_echo" THEN CliHandle("echo", "echo") ELSE CliHandle("fail", "fail")
    /\ userPc' = IF userPc = "handle_echo" THEN "handle_fail" ELSE "connect"
    /\ UNCHANGED <<cfgReconnect, userConn, connectRet>>
    /\ UNCHANGED <<cliStateVars, transVars, cliLoopVars, sendVars>>
    /\ UNCHANGED <<inputVars, unitVars, serverVars>>

\* a client whose done channel never reads as closed
IsClosedNever == FALSE

\* c.IsClosed(): c.done is closed
IsClosed == cliDone

\* a ConnectWithRetry that returns the error of its first failed attempt
GivesUpAlways == TRUE

\* a ConnectWithRetry that never looks at config.Reconnect
GivesUpNever == userApi = "connect"

\* what the driver does with an error of Connect: Connect's caller gets it;
\* ConnectWithRetry: else if !c.config.Reconnect { return err }
GivesUp == userApi = "connect" \/ ~cfgReconnect

\* Connect: if c.IsClosed() { return ErrClientClosed }
ConnectCheck ==
    /\ userPc = "connect"
    /\ userPc' = IF ~IsClosed THEN "dial" ELSE IF GivesUp THEN "failed" ELSE "wait"
    /\ connectRet' = IF IsClosed /\ GivesUp THEN "closed" ELSE connectRet
    /\ UNCHANGED <<cfgReconnect, userConn, cliHandlers>>
    /\ UNCHANGED <<cliStateVars, transVars, cliLoopVars, sendVars>>
    /\ UNCHANGED <<inputVars, unitVars, serverVars>>

\* conn, err := net.Dial(...): a new transport when a server listens
ConnectDial ==
    /\ userPc = "dial"
    /\ IF srvUp
       THEN /\ nDials < MaxDials
            /\ nDials' = nDials + 1
            /\ userConn' = nDials + 1
            /\ userPc' = "set"
            /\ UNCHANGED connectRet
       ELSE /\ userPc' = IF GivesUp THEN "failed" ELSE "wait"
            /\ connectRet' = IF GivesUp THEN "err" ELSE connectRet
            /\ UNCHANGED <<nDials, userConn>>
    /\ UNCHANGED <<cfgReconnect, cliHandlers>>
    /\ UNCHANGED <<cliCloses, remoteClosed, down, up, downLog, nDown, srvUp, nOutages>>
    /\ UNCHANGED <<cliStateVars, cliLoopVars, sendVars>>
    /\ UNCHANGED <<inputVars, unitVars, serverVars>>

\* c.mu.Lock(); c.conn = conn; c.mu.Unlock(); go c.handleMessages(); return nil
ConnectSet ==
    /\ userPc = "set"
    /\ cliConn' = userConn
    /\ lpPc' = [lpPc EXCEPT ![userConn] = "start"]
    /\ connectRet' = "nil"
    /\ userPc' = "connected"
    /\ UNCHANGED <<cfgReconnect, userConn, cliHandlers>>
    /\ UNCHANGED <<cliDone, cliOnce, closePc, closeRet, closeFirst, closedConn>>
    /\ UNCHANGED <<lpConn, lpNew, lpBuf, lpCons, lpCur, lpH, cliHandled>>
    /\ UNCHANGED <<transVars, sendVars>>
    /\ UNCHANGED <<inputVars, unitVars, serverVars>>

\* ConnectWithRetry of the driver: select on c.done and time.After(delay)
ConnectWait ==
    /\ userPc = "wait"
    /\ \E fired \in {"done", "timer"} :
         IF fired = "done"
         THEN /\ IsClosed
              /\ userPc' = "failed"
              /\ connectRet' = "closed"
         ELSE /\ userPc' = "connect"
              /\ UNCHANGED connectRet
    /\ UNCHANGED <<cfgReconnect, userConn, cliHandlers>>
    /\ UNCHANGED <<cliStateVars, transVars, cliLoopVars, sendVars>>
    /\ UNCHANGED <<inputVars, unitVars, serverVars>>

(***************************************************************************)
(* Client.Close: c.closeOnce.Do(func() {...}); return err                  *)
(***************************************************************************)
\* a Close without closeOnce: every caller runs the function
CliOnceFirstAlways == TRUE

\* sync.Once: the first caller runs the function
CliOnceFirst == cliOnce = "idle"

\* the first caller enters the closure: close(c.done)
CloseEnter(k) ==
    /\ role = "client"
    /\ closePc[k] = "idle"
    /\ CliOnceFirst
    /\ cliOnce' = "running"
    /\ cliDone' = TRUE
    /\ closeFirst' = k
    /\ closePc' = [closePc EXCEPT ![k] = "locked"]
    /\ UNCHANGED <<cliConn, closeRet, closedConn>>
    /\ UNCHANGED <<userVars, transVars, cliLoopVars, sendVars>>
    /\ UNCHANGED <<inputVars, unitVars, serverVars>>

\* c.mu.Lock(); if c.conn != nil { err = c.conn.Close(); c.conn = nil }; c.mu.Unlock()
CloseLocked(k) ==
    /\ closePc[k] = "locked"
    /\ \E failed \in BOOLEAN :
         IF cliConn # 0
         THEN /\ cliCloses' = [cliCloses EXCEPT ![cliConn] = @ + 1]
              /\ closedConn' = cliConn
              /\ closeRet' = [closeRet EXCEPT ![k] = IF failed THEN "err" ELSE "nil"]
         ELSE /\ failed = FALSE
              /\ closeRet' = [closeRet EXCEPT ![k] = "nil"]
              /\ UNCHANGED <<cliCloses, closedConn>>
    /\ cliConn' = 0
    /\ cliOnce' = "done"
    /\ closePc' = [closePc EXCEPT ![k] = "returned"]
    /\ UNCHANGED <<cliDone, closeFirst>>
    /\ UNCHANGED <<nDials, remoteClosed, down, up, downLog, nDown, srvUp, nOutages>>
    /\ UNCHANGED <<userVars, cliLoopVars, sendVars>>
    /\ UNCHANGED <<inputVars, unitVars, serverVars>>

\* a caller that finds the Once taken blocks until the closure returned
CloseBlock(k) ==
    /\ role = "client"
    /\ closePc[k] = "idle"
    /\ ~CliOnceFirst
    /\ closePc' = [closePc EXCEPT ![k] = "wait"]
    /\ UNCHANGED <<cliConn, cliDone, cliOnce, closeRet, closeFirst, closedConn>>
    /\ UNCHANGED <<userVars, transVars, cliLoopVars, sendVars>>
    /\ UNCHANGED <<inputVars, unitVars, serverVars>>

\* ... and returns its own err, which nothing assigned
CloseReturnNil(k) ==
    /\ closePc[k] = "wait"
    /\ cliOnce = "done"
    /\ closePc' = [closePc EXCEPT ![k] = "returned"]
    /\ closeRet' = [closeRet EXCEPT ![k] = "nil"]
    /\ UNCHANGED <<cliConn, cliDone, cliOnce, closeFirst, closedConn>>
    /\ UNCHANGED <<userVars, transVars, cliLoopVars, sendVars>>
    /\ UNCHANGED <<inputVars, unitVars, serverVars>>

(***************************************************************************)
(* Client.Send, under c.mu.RLock                                           *)
(***************************************************************************)
\* a write on the client's end of transport t succeeds
CliWriteOk(t) == cliCloses[t] = 0 /\ ~remoteClosed[t]

\* if c.conn == nil { return ErrNotConnected }
NotConnected == cliConn = 0

\* no read loop, no Connect and no Close of this client is running
ClientIdle ==
    /\ userPc \notin {"connect", "dial", "set"}
    /\ \A k \in Closers : closePc[k] \in {"idle", "returned"}
    /\ \A g \in Dials : lpPc[g] \in {"none", "done"}

ClientSend(cap) ==
    /\ role = "client"
    /\ nCliSends < cap
    /\ nCliSends' = nCliSends + 1
    /\ sendOn' = cliConn
    /\ sendLive' = (cliConn # 0 /\ CliWriteOk(cliConn))
    /\ sendIdle' = ClientIdle
    /\ IF NotConnected
       THEN /\ sendRet' = "notconnected"
            /\ UNCHANGED up
       ELSE IF CliWriteOk(cliConn)
       THEN /\ sendRet' = "nil"
            /\ up' = [up EXCEPT ![cliConn] = Append(@, NewMessage("echo", <<"h">>))]
       ELSE /\ sendRet' = "writeerr"
            /\ UNCHANGED up
    /\ UNCHANGED <<nDials, cliCloses, remoteClosed, down, downLog, nDown, srvUp, nOutages>>
    /\ UNCHANGED <<userVars, cliStateVars, cliLoopVars>>
    /\ UNCHANGED <<inputVars, unitVars, serverVars>>

(***************************************************************************)
(* Client.handleMessages.  Loop g is the goroutine started for transport   *)
(* g; it reads c.conn once, without the lock, when it builds its decoder.  *)
(***************************************************************************)
\* the state of loop g after a scan of its buffer
CliAfterScan(g, buf, cons, err) ==
    LET t == lpConn[g]
        r == DecodeScan(down[t], buf, err)
    IN /\ lpCons' = [lpCons EXCEPT ![g] = cons]
       /\ IF r = "value"
          THEN /\ lpCur' = [lpCur EXCEPT ![g] = FirstValue(down[t]).msg]
               /\ down' = [down EXCEPT ![t] = FirstValue(down[t]).rest]
               /\ lpBuf' = [lpBuf EXCEPT ![g] = buf - WireSize(FirstValue(down[t]).msg)]
               /\ lpPc' = [lpPc EXCEPT ![g] = "lookup"]
          ELSE /\ lpBuf' = [lpBuf EXCEPT ![g] = buf]
               /\ lpPc' = [lpPc EXCEPT ![g] = IF r = "error" THEN "exit" ELSE "read"]
               /\ UNCHANGED <<lpCur, down>>

\* decoder := json.NewDecoder(conduit.NewLimitedReader(c.conn, ...))
CliLoopStart(g) ==
    /\ lpPc[g] = "start"
    /\ lpConn' = [lpConn EXCEPT ![g] = cliConn]
    /\ lpPc' = [lpPc EXCEPT ![g] = "select"]
    /\ UNCHANGED <<lpNew, lpBuf, lpCons, lpCur, lpH, cliHandled>>
    /\ UNCHANGED <<userVars, cliStateVars, transVars, sendVars>>
    /\ UNCHANGED <<inputVars, unitVars, serverVars>>

\* select on c.done, else Decode on what the buffer holds (after the read
\* deadline, when one is configured); a decoder built on a nil c.conn
\* panics in its first read
CliSelect(g) ==
    /\ lpPc[g] = "select"
    /\ IF IsClosed
       THEN /\ lpPc' = [lpPc EXCEPT ![g] = "exit"]
            /\ UNCHANGED <<lpBuf, lpCons, lpCur, down>>
       ELSE IF cfgReadTimeout
       THEN /\ lpPc' = [lpPc EXCEPT ![g] = "deadline"]
            /\ UNCHANGED <<lpBuf, lpCons, lpCur, down>>
       ELSE IF lpConn[g] = 0
       THEN /\ lpPc' = [lpPc EXCEPT ![g] = "panic"]
            /\ UNCHANGED <<lpBuf, lpCons, lpCur, down>>
       ELSE CliAfterScan(g, lpBuf[g], lpCons[g], "nil")
    /\ UNCHANGED <<lpConn, lpNew, lpH, cliHandled>>
    /\ UNCHANGED <<nDials, cliCloses, remoteClosed, up, downLog, nDown, srvUp, nOutages>>
    /\ UNCHANGED <<userVars, cliStateVars, sendVars>>
    /\ UNCHANGED <<inputVars, unitVars, serverVars>>

\* c.conn is read again, without the lock: a method call on a nil c.conn
NilDeadline == cliConn = 0

\* c.conn.SetReadDeadline(time.Now().Add(c.config.ReadTimeout)), then Decode
\* on what the buffer holds
CliDeadline(g) ==
    /\ lpPc[g] = "deadline"
    /\ IF NilDeadline \/ lpConn[g] = 0
       THEN /\ lpPc' = [lpPc EXCEPT ![g] = "panic"]
            /\ UNCHANGED <<lpBuf, lpCons, lpCur, down>>
       ELSE CliAfterScan(g, lpBuf[g], lpCons[g], "nil")
    /\ UNCHANGED <<lpConn, lpNew, lpH, cliHandled>>
    /\ UNCHANGED <<nDials, cliCloses, remoteClosed, up, downLog, nDown, srvUp, nOutages>>
    /\ UNCHANGED <<userVars, cliStateVars, sendVars>>
    /\ UNCHANGED <<inputVars, unitVars, serverVars>>

\* Decode blocks in a read of the transport
CliRead(g) ==
    /\ lpPc[g] = "read"
    /\ LET t == lpConn[g]
       IN \E rd \in WithDeadline(ReadChoices(cliCloses[t] > 0,
                                WireBytes(down[t]) - lpBuf[g], remoteClosed[t]),
                                cfgReadTimeout) :
            LET lr == LimitedRead(lpCons[g], rd.n, rd.err)
            IN CliAfterScan(g, lpBuf[g] + lr.n, lr.consumed, lr.err)
    /\ UNCHANGED <<lpConn, lpNew, lpH, cliHandled>>
    /\ UNCHANGED <<nDials, cliCloses, remoteClosed, up, downLog, nDown, srvUp, nOutages>>
    /\ UNCHANGED <<userVars, cliStateVars, sendVars>>
    /\ UNCHANGED <<inputVars, unitVars, serverVars>>

\* handler, exists := c.handlers[msg.Type], under c.mu.RLock
CliHandlerExists(t) == cliHandlers[t] # "none"

CliLookup(g) ==
    /\ lpPc[g] = "lookup"
    /\ IF CliHandlerExists(lpCur[g].type)
       THEN /\ lpH' = [lpH EXCEPT ![g] = cliHandlers[lpCur[g].type]]
            /\ lpPc' = [lpPc EXCEPT ![g] = "handler"]
            /\ UNCHANGED lpCur
       ELSE /\ lpPc' = [lpPc EXCEPT ![g] = "select"]
            /\ lpCur' = [lpCur EXCEPT ![g] = NoMsg]
            /\ UNCHANGED lpH
    /\ UNCHANGED <<lpConn, lpNew, lpBuf, lpCons, cliHandled>>
    /\ UNCHANGED <<userVars, cliStateVars, transVars, sendVars>>
    /\ UNCHANGED <<inputVars, unitVars, serverVars>>

\* handler(c, &msg); an error is logged.  The handlers of the driver decode
\* the payload and write nothing.
CliHandler(g) ==
    /\ lpPc[g] = "handler"
    /\ LET u == Unmarshal(lpCur[g].payload)
           failed == lpH[g] = "fail" \/ u.err
       IN cliHandled' = [cliHandled EXCEPT ![g] =
              Append(@, [type |-> lpCur[g].type, val |-> u.val, err |-> failed])]
    /\ lpPc' = [lpPc EXCEPT ![g] = "select"]
    /\ lpCur' = [lpCur EXCEPT ![g] = NoMsg]
    /\ lpH' = [lpH EXCEPT ![g] = "none"]
    /\ UNCHANGED <<lpConn, lpNew, lpBuf, lpCons>>
    /\ UNCHANGED <<userVars, cliStateVars, transVars, sendVars>>
    /\ UNCHANGED <<inputVars, unitVars, serverVars>>

\* a deferred function that never reconnects
ReconnectNever == FALSE

\* if c.config.Reconnect && !c.IsClosed()
ReconnectWanted == cfgReconnect /\ ~IsClosed

\* the deferred function: reconnect when wanted, else the goroutine ends
CliExit(g) ==
    /\ lpPc[g] = "exit"
    /\ lpPc' = [lpPc EXCEPT ![g] = IF ReconnectWanted THEN "clear" ELSE "done"]
    /\ UNCHANGED <<lpConn, lpNew, lpBuf, lpCons, lpCur, lpH, cliHandled>>
    /\ UNCHANGED <<userVars, cliStateVars, transVars, sendVars>>
    /\ UNCHANGED <<inputVars, unitVars, serverVars>>

\* c.mu.Lock(); c.conn = nil; c.mu.Unlock(); then c.ConnectWithRetry()
CliClear(g) ==
    /\ lpPc[g] = "clear"
    /\ cliConn' = 0
    /\ lpPc' = [lpPc EXCEPT ![g] = "rc_check"]
    /\ UNCHANGED <<cliDone, cliOnce, closePc, closeRet, closeFirst, closedConn>>
    /\ UNCHANGED <<lpConn, lpNew, lpBuf, lpCons, lpCur, lpH, cliHandled>>
    /\ UNCHANGED <<userVars, transVars, sendVars>>
    /\ UNCHANGED <<inputVars, unitVars, serverVars>>

(***************************************************************************)
(* Client.ConnectWithRetry as the teardown of loop g runs it (Reconnect is *)
(* true there): Connect, and on an error a wait on c.done and the timer.   *)
(***************************************************************************)
\* Connect: if c.IsClosed() { return ErrClientClosed }
CliRcCheck(g) ==
    /\ lpPc[g] = "rc_check"
    /\ lpPc' = [lpPc EXCEPT ![g] = IF IsClosed THEN "rc_wait" ELSE "rc_dial"]
    /\ UNCHANGED <<lpConn, lpNew, lpBuf, lpCons, lpCur, lpH, cliHandled>>
    /\ UNCHANGED <<userVars, cliStateVars, transVars, sendVars>>
    /\ UNCHANGED <<inputVars, unitVars, serverVars>>

\* Connect: net.Dial
CliRcDial(g) ==
    /\ lpPc[g] = "rc_dial"
    /\ IF srvUp
       THEN /\ nDials < MaxDials
            /\ nDials' = nDials + 1
            /\ lpNew' = [lpNew EXCEPT ![g] = nDials + 1]
            /\ lpPc' = [lpPc EXCEPT ![g] = "rc_set"]
       ELSE /\ lpPc' = [lpPc EXCEPT ![g] = "rc_wait"]
            /\ UNCHANGED <<nDials, lpNew>>
    /\ UNCHANGED <<lpConn, lpBuf, lpCons, lpCur, lpH, cliHandled>>
    /\ UNCHANGED <<cliCloses, remoteClosed, down, up, downLog, nDown, srvUp, nOutages>>
    /\ UNCHANGED <<userVars, cliStateVars, sendVars>>
    /\ UNCHANGED <<inputVars, unitVars, serverVars>>

\* Connect: c.conn = conn under the lock; go c.handleMessages(); return nil
CliRcSet(g) ==
    /\ lpPc[g] = "rc_set"
    /\ cliConn' = lpNew[g]
    /\ lpPc' = [lpPc EXCEPT ![g] = "done", ![lpNew[g]] = "start"]
    /\ UNCHANGED <<cliDone, cliOnce, closePc, closeRet, closeFirst, closedConn>>
    /\ UNCHANGED <<lpConn, lpNew, lpBuf, lpCons, lpCur, lpH, cliHandled>>
    /\ UNCHANGED <<userVars, transVars, sendVars>>
    /\ UNCHANGED <<inputVars, unitVars, serverVars>>

\* select: <-c.done returns ErrClientClosed, <-time.After(delay) retries
CliRcWait(g) ==
    /\ lpPc[g] = "rc_wait"
    /\ \E fired \in {"done", "timer"} :
         /\ fired = "done" => IsClosed
         /\ lpPc' = [lpPc EXCEPT ![g] = IF fired = "done" THEN "done" ELSE "rc_check"]
    /\ UNCHANGED <<lpConn, lpNew, lpBuf, lpCons, lpCur, lpH, cliHandled>>
    /\ UNCHANGED <<userVars, cliStateVars, transVars, sendVars>>
    /\ UNCHANGED <<inputVars, unitVars, serverVars>>

(***************************************************************************)
(* The server a client talks to: a process that listens on the socket      *)
(* path, writes to the transports it accepted, closes them and goes away.  *)
(***************************************************************************)
\* transports the client dialed
Dialed == 1..nDials

\* a server starts listening on the path
EnvServerUp ==
    /\ role = "client"
    /\ ~srvUp
    /\ srvUp' = TRUE
    /\ UNCHANGED <<nDials, cliCloses, remoteClosed, down, up, downLog, nDown, nOutages>>
    /\ UNCHANGED <<userVars, cliStateVars, cliLoopVars, sendVars>>
    /\ UNCHANGED <<inputVars, unitVars, serverVars>>

\* the server stops: its listener and all its connections are closed
EnvServerDown ==
    /\ srvUp
    /\ nOutages < MaxOutages
    /\ srvUp' = FALSE
    /\ nOutages' = nOutages + 1
    /\ remoteClosed' = [t \in Dials |-> remoteClosed[t] \/ t \in Dialed]
    /\ UNCHANGED <<nDials, cliCloses, down, up, downLog, nDown>>
    /\ UNCHANGED <<userVars, cliStateVars, cliLoopVars, sendVars>>
    /\ UNCHANGED <<inputVars, unitVars, serverVars>>

\* the server closes one connection
EnvClose(t) ==
    /\ t \in Dialed
    /\ ~remoteClosed[t]
    /\ nOutages < MaxOutages
    /\ nOutages' = nOutages + 1
    /\ remoteClosed' = [remoteClosed EXCEPT ![t] = TRUE]
    /\ UNCHANGED <<nDials, cliCloses, down, up, downLog, nDown, srvUp>>
    /\ UNCHANGED <<userVars, cliStateVars, cliLoopVars, sendVars>>
    /\ UNCHANGED <<inputVars, unitVars, serverVars>>

\* the server writes a message to a connection
EnvSend(t, m, cap) ==
    /\ t \in Dialed
    /\ ~remoteClosed[t]
    /\ cliCloses[t] = 0
    /\ nDown < cap
    /\ down' = [down EXCEPT ![t] = Append(@, m)]
    /\ downLog' = [downLog EXCEPT ![t] = Append(@, m)]
    /\ nDown' = nDown + 1
    /\ UNCHANGED <<nDials, cliCloses, remoteClosed, up, srvUp, nOutages>>
    /\ UNCHANGED <<userVars, cliStateVars, cliLoopVars, sendVars>>
    /\ UNCHANGED <<inputVars, unitVars, serverVars>>

\* the server writes bytes that are no JSON to a connection
EnvGarbage(t) ==
    /\ t \in Dialed
    /\ ~remoteClosed[t]
    /\ cliCloses[t] = 0
    /\ nOutages < MaxOutages
    /\ nOutages' = nOutages + 1
    /\ down' = [down EXCEPT ![t] = Append(@, Garbage)]
    /\ downLog' = [downLog EXCEPT ![t] = Append(@, Garbage)]
    /\ UNCHANGED <<nDials, cliCloses, remoteClosed, up, nDown, srvUp>>
    /\ UNCHANGED <<userVars, cliStateVars, cliLoopVars, sendVars>>
    /\ UNCHANGED <<inputVars, unitVars, serverVars>>

\* responses the server wrote to transport t
Responses(t) ==
    Cardinality({i \in 1..Len(downLog[t]) : downLog[t][i].wf})

\* the server's handler answers the next message the client wrote
EnvRespond(t) ==
    /\ t \in Dialed
    /\ ~remoteClosed[t]
    /\ cliCloses[t] = 0
    /\ Responses(t) < Len(up[t])
    /\ LET u == Unmarshal(up[t][Responses(t) + 1].payload)
           m == NewMessage("echo", u.val)
       IN /\ down' = [down EXCEPT ![t] = Append(@, m)]
          /\ downLog' = [downLog EXCEPT ![t] = Append(@, m)]
    /\ UNCHANGED <<nDials, cliCloses, remoteClosed, up, nDown, srvUp, nOutages>>
    /\ UNCHANGED <<userVars, cliStateVars, cliLoopVars, sendVars>>
    /\ UNCHANGED <<inputVars, unitVars, serverVars>>

(***************************************************************************)
(* The server and its peers.                                               *)
(***************************************************************************)
\* main(): os.Args[1] selects the server or the client
InitRole(r) == role = r

Init ==
    /\ InitRole("server")
    /\ InitServer
    /\ InitClient
    /\ InitInputs
    /\ InitUnits
    /\ cfgReconnect = TRUE
    /\ srvUp = FALSE

\* the driver's calls of Handle and Start, the accept loop and the peers' dials
NextSetup ==
    \/ MainHandle
    \/ StartListen
    \/ StartAssign
    \/ \E c \in Conns : AcceptConn(c)
    \/ AcceptRegister
    \/ AcceptError
    \/ \E c \in Conns : PeerDial(c)

\* the read loop of each connection
NextLoop ==
    \/ \E c \in Conns : SrvSelect(c)
    \/ \E c \in Conns : SrvRead(c)
    \/ \E c \in Conns : SrvLookup(c)
    \/ \E c \in Conns : SrvHandler(c)
    \/ \E c \in Conns : SrvTeardownClose(c)
    \/ \E c \in Conns : SrvTeardownDelete(c)

\* Stop called from other goroutines
NextStop ==
    \/ \E k \in Stoppers : StopEnter(k)
    \/ \E k \in Stoppers : StopCloseAll(k)
    \/ \E k \in Stoppers : StopRemove(k)
    \/ \E k \in Stoppers : StopBlock(k)
    \/ \E k \in Stoppers : StopReturnNil(k)

NextBroadcast ==
    \/ BroadcastBegin
    \/ \E c \in Conns : BroadcastSend(c)
    \/ BroadcastEnd

\* the driver's calls of Client.Handle and Client.Connect
NextUser ==
    \/ UserHandle
    \/ ConnectCheck
    \/ ConnectDial
    \/ ConnectSet

\* the read loop of the client, up to its deferred function
NextCliLoop ==
    \/ \E g \in Dials : CliLoopStart(g)
    \/ \E g \in Dials : CliSelect(g)
    \/ \E g \in Dials : CliRead(g)
    \/ \E g \in Dials : CliLookup(g)
    \/ \E g \in Dials : CliHandler(g)
    \/ \E g \in Dials : CliExit(g)

\* the reconnect of the deferred function
NextReconnect ==
    \/ \E g \in Dials : CliClear(g)
    \/ \E g \in Dials : CliRcCheck(g)
    \/ \E g \in Dials : CliRcDial(g)
    \/ \E g \in Dials : CliRcSet(g)
    \/ \E g \in Dials : CliRcWait(g)

\* Close called from other goroutines
NextClose ==
    \/ \E k \in Closers : CloseEnter(k)
    \/ \E k \in Closers : CloseLocked(k)
    \/ \E k \in Closers : CloseBlock(k)
    \/ \E k \in Closers : CloseReturnNil(k)

\* Message dispatch in both directions: the process is a server whose peers
\* write every kind of message, or a client (Reconnect off) whose server does.
InitDispatch ==
    /\ role \in {"server", "client"}
    /\ InitServer
    /\ InitClient
    /\ InitInputs
    /\ InitUnits
    /\ cfgReconnect = FALSE
    /\ srvUp = FALSE

NextDispatch ==
    \/ NextSetup
    \/ NextLoop
    \/ \E c \in Conns, m \in PeerMsgs : PeerSend(c, m, MaxSends)
    \/ \E c \in Conns : PeerClose(c)
    \/ NextUser
    \/ NextCliLoop
    \/ EnvServerUp
    \/ \E t \in Dials, m \in PeerMsgs : EnvSend(t, m, MaxSends)
    \/ \E t \in Dials : EnvClose(t)

SpecDispatch == InitDispatch /\ [][NextDispatch]_vars

\* Lifecycle: Stop races the loops; peers write echo messages.
Next ==
    \/ NextSetup
    \/ NextLoop
    \/ NextStop
    \/ \E c \in Conns : PeerSend(c, NewMessage("echo", <<"h">>), MaxLifeSends)
    \/ \E c \in Conns : PeerClose(c)

Spec == Init /\ [][Next]_vars

\* Close from three sides: the teardown, one Stop call and a caller outside.
NextClosing ==
    \/ NextSetup
    \/ NextLoop
    \/ StopEnter(1)
    \/ StopCloseAll(1)
    \/ StopRemove(1)
    \/ \E c \in Conns : ExtClose(c)
    \/ \E c \in Conns : PeerSend(c, NewMessage("echo", <<"h">>), MaxLifeSends)
    \/ \E c \in Conns : PeerClose(c)

SpecClose == Init /\ [][NextClosing]_vars

\* Broadcast while connections break; no Stop.
NextBroadcasting ==
    \/ NextSetup
    \/ NextLoop
    \/ NextBroadcast
    \/ \E c \in Conns : ExtClose(c)
    \/ \E c \in Conns : PeerSend(c, NewMessage("echo", <<"h">>), MaxLifeSends)
    \/ \E c \in Conns : PeerClose(c)

SpecBroadcast == Init /\ [][NextBroadcasting]_vars

\* Broadcast with a payload that serialises, or with one that does not
InitBroadcastAny ==
    /\ InitRole("server")
    /\ InitServer
    /\ InitClient
    /\ InitUnits
    /\ DefaultApi
    /\ NoReadTimeout
    /\ DefaultEnvelope
    /\ bcPayload \in {<<"h">>, BadPayload}
    /\ cfgReconnect = TRUE
    /\ srvUp = FALSE

NextBroadcastAny ==
    \/ NextBroadcasting
    \/ BroadcastFail

SpecBroadcastAny == InitBroadcastAny /\ [][NextBroadcastAny]_vars

\* Client lifecycle: Close and Send race the read loop and its reconnect,
\* with Reconnect on or off; the server comes, goes and closes connections.
InitClientLife ==
    /\ InitRole("client")
    /\ InitServer
    /\ InitClient
    /\ InitInputs
    /\ InitUnits
    /\ cfgReconnect \in BOOLEAN
    /\ srvUp = FALSE

NextClientLife ==
    \/ NextUser
    \/ NextCliLoop
    \/ NextReconnect
    \/ NextClose
    \/ ClientSend(MaxCliSends)
    \/ EnvServerUp
    \/ EnvServerDown
    \/ \E t \in Dials : EnvClose(t)
    \/ \E t \in Dials : EnvSend(t, NewMessage("echo", <<"h">>), MaxLifeSends)

SpecClient == InitClientLife /\ [][NextClientLife]_vars

\* Connecting: the driver calls Connect or ConnectWithRetry, with Reconnect on
\* or off, while other goroutines call Close and the server comes and goes.
InitConnect ==
    /\ InitRole("client")
    /\ InitServer
    /\ InitClient
    /\ InitUnits
    /\ DefaultPayload
    /\ NoReadTimeout
    /\ DefaultEnvelope
    /\ userApi \in {"connect", "retry"}
    /\ cfgReconnect \in BOOLEAN
    /\ srvUp \in BOOLEAN

NextConnect ==
    \/ NextUser
    \/ ConnectWait
    \/ NextCliLoop
    \/ NextReconnect
    \/ NextClose
    \/ EnvServerUp
    \/ EnvServerDown
    \/ \E t \in Dials : EnvClose(t)
    \/ \E t \in Dials : EnvSend(t, NewMessage("echo", <<"h">>), MaxLifeSends)

SpecConnect == InitConnect /\ [][NextConnect]_vars

\* Reconnect: Reconnect is on and Close is never called; the server answers
\* what the client sends, and goes away or breaks a connection MaxOutages
\* times at most.
InitReconnect ==
    /\ InitRole("client")
    /\ InitServer
    /\ InitClient
    /\ InitInputs
    /\ InitUnits
    /\ cfgReconnect = TRUE
    /\ srvUp = FALSE

NextReconnecting ==
    \/ NextUser
    \/ NextCliLoop
    \/ NextReconnect
    \/ ClientSend(MaxCliSends)
    \/ EnvServerUp
    \/ EnvServerDown
    \/ \E t \in Dials : EnvClose(t)
    \/ \E t \in Dials : EnvGarbage(t)
    \/ \E t \in Dials : EnvRespond(t)

\* every step of the goroutine that runs loop g and its deferred function
LoopStep(g) ==
    \/ CliLoopStart(g) \/ CliSelect(g) \/ CliRead(g) \/ CliLookup(g)
    \/ CliHandler(g) \/ CliExit(g)
    \/ CliClear(g) \/ CliRcCheck(g) \/ CliRcDial(g) \/ CliRcSet(g) \/ CliRcWait(g)

\* The Go scheduler runs every goroutine that can take a step; a server
\* comes back on the path, and its handlers answer.
FairReconnect ==
    /\ \A g \in Dials : WF_vars(LoopStep(g))
    /\ WF_vars(EnvServerUp)
    /\ \A t \in Dials : WF_vars(EnvRespond(t))

SpecReconnect == InitReconnect /\ [][NextReconnecting]_vars /\ FairReconnect

(***************************************************************************)
(* A LimitedReader on its own: a caller reads through it again and again,  *)
(* and the underlying reader returns any count up to MaxChunk with any of  *)
(* its errors.                                                             *)
(***************************************************************************)
MaxChunk == 3
ReadErrs == {"nil", "eof", "closed"}

\* reads go on until the count is twice the limit
ReaderRead ==
    /\ lrConsumed <= 2 * MaxMessageSize
    /\ \E n \in 0..MaxChunk, err \in ReadErrs :
         LET r == LimitedRead(lrConsumed, n, err)
         IN /\ lrPrev' = lrConsumed
            /\ lrIn' = [n |-> n, err |-> err]
            /\ lrConsumed' = r.consumed
            /\ lrRet' = [n |-> r.n, err |-> r.err]
    /\ UNCHANGED <<inputVars, ctxVars, envVars, serverVars, clientVars>>

InitReader ==
    /\ InitRole("server")
    /\ InitServer
    /\ InitClient
    /\ InitInputs
    /\ InitUnits
    /\ cfgReconnect = FALSE
    /\ srvUp = FALSE

NextReader == ReaderRead

SpecReader == InitReader /\ [][NextReader]_vars

(***************************************************************************)
(* The context stores of the connections and of the client: Go maps, each  *)
(* behind the mutex of its owner.                                          *)
(***************************************************************************)
\* a SetContext that starts a new map
MapSetFresh(mp, k, v) == [x \in {k} |-> v]

\* c.context[key] = value
MapSet(mp, k, v) == [x \in DOMAIN mp \cup {k} |-> IF x = k THEN v ELSE mp[x]]

\* val, ok := c.context[key]
MapGet(mp, k) == IF k \in DOMAIN mp THEN [val |-> mp[k], ok |-> TRUE] ELSE NoValue

\* Connection.SetContext, under c.mu.Lock
ConnSetContext(c, k, v) ==
    /\ connCtx' = [connCtx EXCEPT ![c] = MapSet(@, k, v)]
    /\ ctxLast' = [ctxLast EXCEPT ![c][k] = v]
    /\ UNCHANGED <<cliCtx, ctxGot, ctxAsked>>
    /\ UNCHANGED <<inputVars, readerVars, envVars, serverVars, clientVars>>

\* Connection.GetContext, under c.mu.RLock
ConnGetContext(c, k) ==
    /\ ctxGot' = MapGet(connCtx[c], k)
    /\ ctxAsked' = <<c, k>>
    /\ UNCHANGED <<connCtx, cliCtx, ctxLast>>
    /\ UNCHANGED <<inputVars, readerVars, envVars, serverVars, clientVars>>

\* Client.SetContext, under c.contextMu.Lock
CliSetContext(k, v) ==
    /\ cliCtx' = MapSet(cliCtx, k, v)
    /\ ctxLast' = [ctxLast EXCEPT ![ClientStore][k] = v]
    /\ UNCHANGED <<connCtx, ctxGot, ctxAsked>>
    /\ UNCHANGED <<inputVars, readerVars, envVars, serverVars, clientVars>>

\* Client.GetContext, under c.contextMu.RLock
CliGetContext(k) ==
    /\ ctxGot' = MapGet(cliCtx, k)
    /\ ctxAsked' = <<ClientStore, k>>
    /\ UNCHANGED <<connCtx, cliCtx, ctxLast>>
    /\ UNCHANGED <<inputVars, readerVars, envVars, serverVars, clientVars>>

\* Two connections and a client in one process, as in the tests; their
\* owners call SetContext and GetContext in any order.
InitContext ==
    /\ InitRole("server")
    /\ InitServer
    /\ InitClient
    /\ InitInputs
    /\ InitUnits
    /\ cfgReconnect = FALSE
    /\ srvUp = FALSE

NextContext ==
    \/ \E c \in Conns, k \in Keys, v \in CtxValues : ConnSetContext(c, k, v)
    \/ \E c \in Conns, k \in Keys : ConnGetContext(c, k)
    \/ \E k \in Keys, v \in CtxValues : CliSetContext(k, v)
    \/ \E k \in Keys : CliGetContext(k)

SpecContext == InitContext /\ [][NextContext]_vars

(***************************************************************************)
(* A second registration for a type: once the program runs, the driver     *)
(* calls Handle for "echo" again, with the handler that fails.             *)
(***************************************************************************)
MainRehandle ==
    /\ mainPc = "running"
    /\ Handle("echo", "fail")
    /\ mainPc' = "rebound"
    /\ UNCHANGED <<lstate, sListener, sockFile, startRet>>
    /\ UNCHANGED <<stopVars, accVars, closeVars, loopVars, wireVars, bcVars>>
    /\ UNCHANGED <<inputVars, unitVars, clientVars>>

UserRehandle ==
    /\ userPc = "connected"
    /\ CliHandle("echo", "fail")
    /\ userPc' = "rebound"
    /\ UNCHANGED <<cfgReconnect, userConn, connectRet>>
    /\ UNCHANGED <<cliStateVars, transVars, cliLoopVars, sendVars>>
    /\ UNCHANGED <<inputVars, unitVars, serverVars>>

RebindMsgs == {NewMessage("echo", <<"h">>), NewMessage("fail", <<"h">>)}

NextRebind ==
    \/ NextSetup
    \/ NextLoop
    \/ MainRehandle
    \/ \E c \in Conns, m \in RebindMsgs : PeerSend(c, m, MaxSends)
    \/ \E c \in Conns : PeerClose(c)
    \/ NextUser
    \/ NextCliLoop
    \/ UserRehandle
    \/ EnvServerUp
    \/ \E t \in Dials, m \in RebindMsgs : EnvSend(t, m, MaxSends)
    \/ \E t \in Dials : EnvClose(t)

SpecRebind == InitDispatch /\ [][NextRebind]_vars

(***************************************************************************)
(* The message envelope on its own: types.go.  NewMessage is called once   *)
(* on a type and a value, UnmarshalPayload then repeatedly on the message  *)
(* it returned.                                                            *)
(***************************************************************************)
MaxValueLen == 2
MaxDecodes == 2

EnvChars == {"h", DQ, BS, XFF}

RECURSIVE StringsUpTo(_)
StringsUpTo(n) ==
    IF n = 0 THEN {<<>>}
    ELSE StringsUpTo(n - 1) \cup
         {Append(v, ch) : v \in {w \in StringsUpTo(n - 1) : Len(w) = n - 1}, ch \in EnvChars}

\* every byte of the string is part of a valid UTF-8 encoding
ValidUtf8(v) == \A i \in 1..Len(v) : v[i] # XFF

\* conduit.NewMessage(envT, envV)
EnvelopeNew ==
    /\ envMsg = NoMsg
    /\ ~envErr
    /\ IF MarshalFails(envV)
       THEN envErr' = TRUE /\ UNCHANGED envMsg
       ELSE envMsg' = NewMessage(envT, envV) /\ UNCHANGED envErr
    /\ UNCHANGED <<envOut, inputVars, readerVars, ctxVars, serverVars, clientVars>>

\* envMsg.UnmarshalPayload(&out)
EnvelopeUnmarshal ==
    /\ envMsg # NoMsg
    /\ Len(envOut) < MaxDecodes
    /\ envOut' = Append(envOut, Unmarshal(envMsg.payload))
    /\ UNCHANGED <<envMsg, envErr, inputVars, readerVars, ctxVars, serverVars, clientVars>>

InitEnvelope ==
    /\ InitRole("server")
    /\ InitServer
    /\ InitClient
    /\ InitUnits
    /\ DefaultApi
    /\ DefaultPayload
    /\ NoReadTimeout
    /\ cfgReconnect = TRUE
    /\ srvUp = FALSE
    /\ envT \in Types
    /\ envV \in StringsUpTo(MaxValueLen) \cup {BadPayload}

NextEnvelope == EnvelopeNew \/ EnvelopeUnmarshal

SpecEnvelope == InitEnvelope /\ [][NextEnvelope]_vars

(***************************************************************************)
(* The lifecycle with the scheduling the runtime gives: a goroutine that   *)
(* can take its next step takes it.  Accept on a closed listener returns   *)
(* an error at once; a failure of Accept on an open listener is up to the  *)
(* environment and is not promised.                                        *)
(***************************************************************************)
AcceptOnClosed == AcceptError /\ lstate # "open"

FairAccept ==
    /\ WF_vars(AcceptOnClosed)
    /\ WF_vars(AcceptRegister)
    /\ \A k \in Stoppers :
         WF_vars(StopCloseAll(k) \/ StopRemove(k) \/ StopReturnNil(k))

SpecAccept == Init /\ [][Next]_vars /\ FairAccept

(***************************************************************************)
(* Read deadlines: ReadTimeout > 0 on both sides.  Peers and the server    *)
(* may stay silent, so that a blocked read runs into its deadline; Close   *)
(* is called from other goroutines.                                        *)
(***************************************************************************)
InitDeadline ==
    /\ role \in {"server", "client"}
    /\ InitServer
    /\ InitClient
    /\ InitUnits
    /\ DefaultApi
    /\ DefaultPayload
    /\ DefaultEnvelope
    /\ cfgReadTimeout = TRUE
    /\ cfgReconnect \in BOOLEAN
    /\ srvUp = FALSE

NextDeadline ==
    \/ NextSetup
    \/ NextLoop
    \/ \E c \in Conns : PeerSend(c, NewMessage("echo", <<"h">>), MaxLifeSends)
    \/ \E c \in Conns : PeerClose(c)
    \/ NextUser
    \/ NextCliLoop
    \/ \E g \in Dials : CliDeadline(g)
    \/ NextReconnect
    \/ NextClose
    \/ EnvServerUp
    \/ EnvServerDown
    \/ \E t \in Dials : EnvSend(t, NewMessage("echo", <<"h">>), MaxLifeSends)

SpecDeadline == InitDeadline /\ [][NextDeadline]_vars

(***************************************************************************)
(* A driver that calls Connect again on a client that is connected.        *)
(***************************************************************************)
\* the driver's next call of Connect after one that returned nil
ConnectAgain ==
    /\ userPc = "connected"
    /\ nDials < MaxDials
    /\ userPc' = "connect"
    /\ UNCHANGED <<cfgReconnect, userConn, connectRet, cliHandlers>>
    /\ UNCHANGED <<cliStateVars, transVars, cliLoopVars, sendVars>>
    /\ UNCHANGED <<inputVars, unitVars, serverVars>>

NextAgain ==
    \/ NextUser
    \/ ConnectWait
    \/ ConnectAgain
    \/ NextCliLoop
    \/ NextReconnect
    \/ EnvServerUp
    \/ EnvServerDown
    \/ \E t \in Dials : EnvClose(t)
    \/ \E t \in Dials : EnvSend(t, NewMessage("echo", <<"h">>), MaxLifeSends)

SpecAgain == InitConnect /\ [][NextAgain]_vars

(***************************************************************************)
(* Shutdown with every goroutine of the server scheduled: the accept loop, *)
(* the callers of Stop, and the read loop of each connection, whose        *)
(* handlers return.                                                        *)
(***************************************************************************)
\* every step of the goroutine that runs handleConnection for c
ConnStep(c) ==
    \/ SrvSelect(c) \/ SrvRead(c) \/ SrvLookup(c) \/ SrvHandler(c)
    \/ SrvTeardownClose(c) \/ SrvTeardownDelete(c)

FairShutdown ==
    /\ FairAccept
    /\ \A c \in Conns : WF_vars(ConnStep(c))

SpecShutdown == Init /\ [][Next]_vars /\ FairShutdown

(***************************************************************************)
(* Stop against Broadcast, with peers that may not read.  WriteTimeout is  *)
(* 0: a write to a transport whose buffer is full blocks until the peer    *)
(* reads, the peer closes or the transport is closed.  The buffer of a     *)
(* transport holds SockBuf messages; the peers of this specification never *)
(* read.                                                                   *)
(***************************************************************************)
SockBuf == 1

\* json.NewEncoder(c.conn).Encode(msg) cannot return yet
WriteBlocks(c) == WriteOk(c) /\ Len(outWire[c]) >= SockBuf

\* one iteration of Broadcast, once its write can return
BroadcastSendUnblocked(c) ==
    /\ ~WriteBlocks(c)
    /\ BroadcastSend(c)

\* the handler, once the write of its reply can return
SrvHandlerUnblocked(c) ==
    /\ ~(curH[c] = "echo" /\ WriteBlocks(c))
    /\ SrvHandler(c)

NextStalled ==
    \/ NextSetup
    \/ \E c \in Conns : SrvSelect(c)
    \/ \E c \in Conns : SrvRead(c)
    \/ \E c \in Conns : SrvLookup(c)
    \/ \E c \in Conns : SrvHandlerUnblocked(c)
    \/ \E c \in Conns : SrvTeardownClose(c)
    \/ \E c \in Conns : SrvTeardownDelete(c)
    \/ StopEnter(1)
    \/ StopCloseAll(1)
    \/ StopRemove(1)
    \/ BroadcastBegin
    \/ \E c \in Conns : BroadcastSendUnblocked(c)
    \/ BroadcastEnd
    \/ \E c \in Conns : PeerSend(c, NewMessage("echo", <<"h">>), MaxLifeSends)
    \/ \E c \in Conns : PeerClose(c)

\* every goroutine of the server that can take a step takes it; the peers
\* promise nothing
FairStalled ==
    /\ WF_vars(AcceptOnClosed)
    /\ WF_vars(AcceptRegister)
    /\ WF_vars(StopCloseAll(1) \/ StopRemove(1))
    /\ WF_vars(BroadcastBegin \/ BroadcastEnd \/ \E c \in Conns : BroadcastSendUnblocked(c))
    /\ \A c \in Conns :
         WF_vars(SrvSelect(c) \/ SrvRead(c) \/ SrvLookup(c) \/ SrvHandlerUnblocked(c)
                 \/ SrvTeardownClose(c) \/ SrvTeardownDelete(c))

SpecStalled == Init /\ [][NextStalled]_vars /\ FairStalled

(***************************************************************************)
(* C3  Server.Stop is idempotent and first-call-wins: however many calls   *)
(* there are, sequential or concurrent, before or after Start, the         *)
(* listener is closed at most once, the transport of every connection is   *)
(* closed at most once, and only the caller that ran the closure can       *)
(* return a non-nil error; every other call returns nil.                   *)
(***************************************************************************)
C3_StopFirstCallWins ==
    /\ listenerCloses <= 1
    /\ \A c \in Conns : tCloses[c] <= 1
    /\ \A k \in Stoppers : stopRet[k] = "err" => k = stopFirst
    /\ \A k \in Stoppers :
         (stopPc[k] = "returned" /\ k # stopFirst) => stopRet[k] = "nil"

\* two concurrent calls returned, the first with an error, the second (which
\* waited for it) with nil, after Stop closed a registered connection
C3_Witness ==
    /\ \A k \in Stoppers : stopPc[k] = "returned"
    /\ \E k \in Stoppers : k # stopFirst /\ stopRet[k] = "nil"
    /\ stopRet[stopFirst] = "err"
    /\ listenerCloses = 1
    /\ \E c \in Conns : closedBy[c] = "stop"

(***************************************************************************)
(* C4  Connection.Close is close-once under every interleaving of the read *)
(* loop's teardown, Server.Stop and a caller outside: the transport is     *)
(* closed exactly once, c.done goes from open to closed once and never     *)
(* back, and every caller but the first gets nil.                          *)
(***************************************************************************)
C4_CloseOnceState ==
    \A c \in Conns :
        /\ tCloses[c] = (IF cDone[c] THEN 1 ELSE 0)
        /\ cDone[c] <=> closedBy[c] # "none"
        /\ extRet[c] = "err" => closedBy[c] = "ext"

C4_CloseOnceStep ==
    \A c \in Conns :
        /\ cDone[c] => cDone'[c]
        /\ tCloses'[c] >= tCloses[c]
        /\ closedBy[c] # "none" => closedBy'[c] = closedBy[c]

C4_CloseOnce == []C4_CloseOnceState /\ [][C4_CloseOnceStep]_vars

\* Stop closed the connection first, then a caller outside and the read
\* loop's teardown called Close on it
C4_Witness ==
    \E c \in Conns :
        /\ closedBy[c] = "stop"
        /\ extRet[c] = "nil"
        /\ rlPc[c] = "done"
        /\ tCloses[c] = 1

(***************************************************************************)
(* C8  Broadcast to registered connections of which some have a broken or  *)
(* closed transport still writes the message to every one of the others,   *)
(* and returns nil.                                                        *)
(***************************************************************************)
Announcements(c) ==
    Cardinality({i \in 1..Len(outWire[c]) : outWire[c][i].type = "announcement"})

C8_BroadcastReachesTheRest ==
    bcPc = "done" =>
        /\ bcRet = "nil"
        /\ \A c \in bcSnap : WriteOk(c) => c \in bcGot
        /\ \A c \in Conns : Announcements(c) = (IF c \in bcGot THEN 1 ELSE 0)

\* a broadcast over two connections ended: one was broken, the other got it
C8_Witness ==
    /\ bcPc = "done"
    /\ \E c, d \in bcSnap : c \in bcGot /\ d \notin bcGot

(***************************************************************************)
(* What a read loop has decoded and dispatched, from the log of what its   *)
(* peer wrote: Decode takes messages off the head of the wire.             *)
(***************************************************************************)
SrvRegistered(m) == m.wf /\ sHandlers[m.type] # "none"
CliRegistered(m) == m.wf /\ cliHandlers[m.type] # "none"

\* the messages the loop of connection c has decoded
Decoded(c) == SubSeq(sentLog[c], 1, Len(sentLog[c]) - Len(inWire[c]))
CliDecoded(g) == SubSeq(downLog[g], 1, Len(downLog[g]) - Len(down[g]))

\* ... without the one whose lookup or handler is still to run
Dispatched(c) ==
    IF rlPc[c] \in {"lookup", "handler"}
    THEN SubSeq(Decoded(c), 1, Len(Decoded(c)) - 1) ELSE Decoded(c)
CliDispatched(g) ==
    IF lpPc[g] \in {"lookup", "handler"}
    THEN SubSeq(CliDecoded(g), 1, Len(CliDecoded(g)) - 1) ELSE CliDecoded(g)

\* got holds one invocation per message of sent, in order, of the same type
SameTypes(sent, got) ==
    /\ Len(got) = Len(sent)
    /\ \A i \in 1..Len(got) : got[i].type = sent[i].type

\* ... and each invocation decoded the value that was sent
SameValues(sent, got) ==
    \A i \in 1..Len(got) :
        i <= Len(sent) => sent[i] = NewMessage(got[i].type, got[i].val)

NoGarbage(log) == \A i \in 1..Len(log) : log[i].wf

(***************************************************************************)
(* C1  For every type with a registered handler, each well-formed message  *)
(* of that type sent on a live connection causes exactly one invocation of *)
(* the handler, with the payload that was sent, in both directions: once a *)
(* read loop that got well-formed messages only has ended, its handlers    *)
(* ran once for each registered message its peer wrote.                    *)
(***************************************************************************)
C1_ExactlyOneInvocation ==
    /\ \A c \in Conns :
         (rlPc[c] = "done" /\ NoGarbage(sentLog[c])) =>
             LET sent == SelectSeq(sentLog[c], SrvRegistered)
             IN SameTypes(sent, handled[c]) /\ SameValues(sent, handled[c])
    /\ \A g \in Dials :
         (lpPc[g] = "done" /\ NoGarbage(downLog[g])) =>
             LET sent == SelectSeq(downLog[g], CliRegistered)
             IN SameTypes(sent, cliHandled[g]) /\ SameValues(sent, cliHandled[g])

(***************************************************************************)
(* C2  No handler is invoked for a message whose bytes take the cumulative *)
(* byte count of its connection over the limit, also when the whole        *)
(* message arrives in the read that crosses the limit: whenever a handler  *)
(* is about to run, the bytes of the messages decoded so far, the current  *)
(* one included, are within MaxMessageSize.                                *)
(***************************************************************************)
C2_NoHandlerPastLimit ==
    /\ \A c \in Conns :
         rlPc[c] = "handler" => ~LimitExceeded(WireBytes(Decoded(c)))
    /\ \A g \in Dials :
         lpPc[g] = "handler" => ~LimitExceeded(WireBytes(CliDecoded(g)))

(***************************************************************************)
(* C9  A message whose type has no registered handler invokes no handler   *)
(* and leaves the connection open, in the server's read loop and in the    *)
(* client's: the lookup that misses changes nothing but the loop's         *)
(* position, which is back at the select, and the invocations of a loop    *)
(* are those of the registered messages it decoded, the ones after an      *)
(* unregistered message included.                                          *)
(***************************************************************************)
C9_DispatchedState ==
    /\ \A c \in Conns :
         SameTypes(SelectSeq(Dispatched(c), SrvRegistered), handled[c])
    /\ \A g \in Dials :
         SameTypes(SelectSeq(CliDispatched(g), CliRegistered), cliHandled[g])

C9_MissStep ==
    /\ \A c \in Conns :
         (rlPc[c] = "lookup" /\ rlPc'[c] # "lookup" /\ sHandlers[cur[c].type] = "none") =>
             /\ rlPc'[c] = "select"
             /\ handled' = handled
             /\ UNCHANGED <<closeVars, conns, outWire, buffered, consumed, inWire>>
    /\ \A g \in Dials :
         (lpPc[g] = "lookup" /\ lpPc'[g] # "lookup" /\ cliHandlers[lpCur[g].type] = "none") =>
             /\ lpPc'[g] = "select"
             /\ cliHandled' = cliHandled
             /\ UNCHANGED <<cliConn, cliCloses, up, lpBuf, lpCons, down>>

C9_UnregisteredIsDropped == []C9_DispatchedState /\ [][C9_MissStep]_vars

\* a connection got an unregistered message and then a registered one: the
\* handler ran for the second only, and the connection is open and registered
C9_Witness ==
    \E c \in Conns :
        /\ Len(sentLog[c]) = 2
        /\ sentLog[c][1].type = "mystery"
        /\ sentLog[c][2].type = "echo"
        /\ Len(handled[c]) = 1
        /\ handled[c][1].type = "echo"
        /\ rlPc[c] = "read"
        /\ ~cDone[c]
        /\ c \in conns

(***************************************************************************)
(* C10  A handler that returns an error does not end the read loop: the    *)
(* step that runs it leaves the connection open and registered and writes  *)
(* nothing to the peer, the loop is back at its select, the other          *)
(* connections are untouched, and every registered message decoded         *)
(* afterwards gets its invocation like any other.                          *)
(***************************************************************************)
HandlerFailed(log, log2) == Len(log2) = Len(log) + 1 /\ log2[Len(log2)].err

C10_ErrorStep ==
    /\ \A c \in Conns :
         HandlerFailed(handled[c], handled'[c]) =>
             /\ rlPc'[c] = "select"
             /\ UNCHANGED <<closeVars, conns, outWire, buffered, consumed, inWire>>
             /\ \A d \in Conns \ {c} : rlPc'[d] = rlPc[d] /\ handled'[d] = handled[d]
    /\ \A g \in Dials :
         HandlerFailed(cliHandled[g], cliHandled'[g]) =>
             /\ lpPc'[g] = "select"
             /\ UNCHANGED <<cliConn, cliCloses, up, lpBuf, lpCons, down>>

C10_ErrorState ==
    /\ \A c \in Conns :
         /\ Len(handled[c]) = Len(SelectSeq(Dispatched(c), SrvRegistered))
         /\ \A i \in 1..Len(handled[c]) :
              handled[c][i].type = "fail" => handled[c][i].err
    /\ \A g \in Dials :
         /\ Len(cliHandled[g]) = Len(SelectSeq(CliDispatched(g), CliRegistered))
         /\ \A i \in 1..Len(cliHandled[g]) :
              cliHandled[g][i].type = "fail" => cliHandled[g][i].err

C10_HandlerErrorIsNotFatal == []C10_ErrorState /\ [][C10_ErrorStep]_vars

\* the failing handler ran on a connection and the echo handler after it,
\* with its reply on the wire; the connection is open and registered
C10_Witness ==
    \E c \in Conns :
        /\ Len(handled[c]) = 2
        /\ handled[c][1].type = "fail" /\ handled[c][1].err
        /\ handled[c][2].type = "echo" /\ ~handled[c][2].err
        /\ Len(outWire[c]) = 1
        /\ ~cDone[c]
        /\ c \in conns

(***************************************************************************)
(* C5  Client.Close is idempotent: the first call signals shutdown and     *)
(* closes the current connection, if any; every later or concurrent call   *)
(* closes no transport and returns nil.                                    *)
(***************************************************************************)
C5_CloseIdempotent ==
    /\ \A t \in Dials : cliCloses[t] <= 1
    /\ \A t \in Dials : cliCloses[t] = 1 => t = closedConn
    /\ \A k \in Closers : closeRet[k] = "err" => k = closeFirst
    /\ \A k \in Closers :
         (closePc[k] = "returned" /\ k # closeFirst) => closeRet[k] = "nil"
    /\ closeFirst # 0 => cliDone
    /\ \A k \in Closers :
         (closePc[k] = "returned" /\ k = closeFirst) =>
             /\ cliOnce = "done"
             /\ closedConn # 0 => cliCloses[closedConn] = 1

\* two concurrent calls returned: the first closed the connection and got
\* the error of that close, the second waited for it and got nil
C5_Witness ==
    /\ \A k \in Closers : closePc[k] = "returned"
    /\ closeRet[closeFirst] = "err"
    /\ \E k \in Closers : k # closeFirst /\ closeRet[k] = "nil"
    /\ closedConn # 0
    /\ cliCloses[closedConn] = 1

(***************************************************************************)
(* C6  Client.Send returns ErrNotConnected, and no write error, whenever   *)
(* the client has no live connection: a Send called while no read loop, no *)
(* Connect and no Close is running (before the first connect, after the    *)
(* read loop has exited, after Close), with no transport open at both      *)
(* ends, returns ErrNotConnected.                                          *)
(***************************************************************************)
C6_SendNotConnected ==
    (sendRet # "none" /\ sendIdle /\ ~sendLive) => sendRet = "notconnected"

(***************************************************************************)
(* C7  With Reconnect on and no Close: when the read loop exits (server    *)
(* stopped, end of stream, framing error) its deferred function clears     *)
(* c.conn and retries Connect; if a server listens on the path again and   *)
(* stays up, the client eventually is connected to a new transport, a Send *)
(* on it succeeds, and the handler registered before the outage runs for   *)
(* the response.                                                           *)
(***************************************************************************)
\* the server is up and will neither go away nor break a connection again
Stable == srvUp /\ nOutages = MaxOutages

C7_TeardownStep ==
    \A g \in Dials :
        /\ (lpPc[g] = "exit" /\ lpPc'[g] # "exit") => lpPc'[g] = "clear"
        /\ (lpPc[g] = "clear" /\ lpPc'[g] # "clear") =>
               cliConn' = 0 /\ lpPc'[g] = "rc_check"

C7_SendOnLive ==
    (sendRet # "none" /\ sendLive) => (sendRet = "nil" /\ sendOn # 0)

C7_Reconnected(g) ==
    lpPc[g] = "done" /\ lpNew[g] # 0 /\ cliConn = lpNew[g] /\ lpPc[lpNew[g]] = "start"

C7_Answered(t) ==
    \E i \in 1..Len(cliHandled[t]) :
        cliHandled[t][i].type = "echo" /\ ~cliHandled[t][i].err

C7_ReconnectsAndResumes ==
    /\ [][C7_TeardownStep]_vars
    /\ []C7_SendOnLive
    /\ \A g \in Dials :
         (lpPc[g] = "exit" /\ nDials < MaxDials) ~> C7_Reconnected(g)
    /\ \A t \in Dials :
         (Stable /\ Len(up[t]) = 1 /\ ~remoteClosed[t] /\ NoGarbage(downLog[t]))
             ~> C7_Answered(t)

\* after an outage the teardown of the first loop connected the client to a
\* second transport; a Send on it returned nil and its response was handled
C7_Witness ==
    /\ nOutages >= 1
    /\ lpPc[1] = "done"
    /\ lpNew[1] = 2
    /\ cliConn = 2
    /\ sendOn = 2
    /\ sendRet = "nil"
    /\ C7_Answered(2)

(***************************************************************************)
(* C11  On one connection the handlers run in the order in which the       *)
(* messages arrived on the wire, and one at a time: the invocations of a   *)
(* read loop are, in order and with the payloads sent, those of the        *)
(* registered messages it decoded; a handler runs for the message decoded  *)
(* last, and the next message is taken off the wire only when the          *)
(* invocations for all earlier ones have returned.  Server and client.     *)
(***************************************************************************)
C11_OrderState ==
    /\ \A c \in Conns :
         LET reg == SelectSeq(Dispatched(c), SrvRegistered)
         IN /\ SameTypes(reg, handled[c]) /\ SameValues(reg, handled[c])
            /\ rlPc[c] \in {"lookup", "handler"} =>
                  cur[c] = Decoded(c)[Len(Decoded(c))]
    /\ \A g \in Dials :
         LET reg == SelectSeq(CliDispatched(g), CliRegistered)
         IN /\ SameTypes(reg, cliHandled[g]) /\ SameValues(reg, cliHandled[g])
            /\ lpPc[g] \in {"lookup", "handler"} =>
                  lpCur[g] = CliDecoded(g)[Len(CliDecoded(g))]

C11_OneAtATimeStep ==
    /\ \A c \in Conns :
         /\ Len(inWire'[c]) < Len(inWire[c]) =>
               /\ rlPc[c] \in {"select", "read"}
               /\ Len(handled[c]) = Len(SelectSeq(Decoded(c), SrvRegistered))
               /\ handled'[c] = handled[c]
         /\ handled'[c] # handled[c] =>
               /\ rlPc[c] = "handler" /\ rlPc'[c] # "handler"
               /\ Len(handled'[c]) = Len(handled[c]) + 1
               /\ SubSeq(handled'[c], 1, Len(handled[c])) = handled[c]
               /\ handled'[c][Len(handled'[c])].type = cur[c].type
    /\ \A g \in Dials :
         /\ (lpConn[g] # 0 /\ Len(down'[lpConn[g]]) < Len(down[lpConn[g]])) =>
               /\ lpPc[g] \in {"select", "read"}
               /\ Len(cliHandled[g]) = Len(SelectSeq(CliDecoded(g), CliRegistered))
               /\ cliHandled'[g] = cliHandled[g]
         /\ cliHandled'[g] # cliHandled[g] =>
               /\ lpPc[g] = "handler" /\ lpPc'[g] # "handler"
               /\ Len(cliHandled'[g]) = Len(cliHandled[g]) + 1
               /\ SubSeq(cliHandled'[g], 1, Len(cliHandled[g])) = cliHandled[g]
               /\ cliHandled'[g][Len(cliHandled'[g])].type = lpCur[g].type

C11_InOrderOneAtATime == []C11_OrderState /\ [][C11_OneAtATimeStep]_vars

\* a loop got two different registered messages, within the size limit, and
\* its handlers ran for the first and then for the second
C11_Witness ==
    \/ \E c \in Conns :
         /\ Len(handled[c]) = 2
         /\ handled[c][1].type # handled[c][2].type
         /\ sentLog[c] = <<NewMessage(handled[c][1].type, handled[c][1].val),
                           NewMessage(handled[c][2].type, handled[c][2].val)>>
         /\ ~LimitExceeded(WireBytes(sentLog[c]))
    \/ \E g \in Dials :
         /\ Len(cliHandled[g]) = 2
         /\ cliHandled[g][1].type # cliHandled[g][2].type
         /\ downLog[g] = <<NewMessage(cliHandled[g][1].type, cliHandled[g][1].val),
                           NewMessage(cliHandled[g][2].type, cliHandled[g][2].val)>>
         /\ ~LimitExceeded(WireBytes(downLog[g]))

(***************************************************************************)
(* C12  Connect on a client that was closed before returns ErrClientClosed *)
(* and does nothing else: the step of a Connect that finds c.done closed   *)
(* dials nothing, leaves c.conn alone and starts no read loop, for the     *)
(* driver's call and for the Connect inside a ConnectWithRetry; a driver   *)
(* that got ErrClientClosed has never dialed, and no loop exists.          *)
(***************************************************************************)
C12_ClosedState ==
    connectRet = "closed" =>
        /\ cliDone
        /\ userPc = "failed"
        /\ userConn = 0 /\ nDials = 0 /\ cliConn = 0
        /\ \A g \in Dials : lpPc[g] = "none"

C12_ClosedStep ==
    /\ (userPc = "connect" /\ cliDone /\ userPc' # "connect") =>
          /\ userPc' \in {"failed", "wait"}
          /\ userPc' = "failed" => connectRet' = "closed"
          /\ UNCHANGED <<userConn, nDials, cliConn, lpPc, cliCloses, up>>
    /\ \A g \in Dials :
         (lpPc[g] = "rc_check" /\ cliDone /\ lpPc'[g] # "rc_check") =>
             /\ lpPc'[g] = "rc_wait"
             /\ \A h \in Dials \ {g} : lpPc'[h] = lpPc[h]
             /\ UNCHANGED <<lpNew, nDials, cliConn, cliCloses, up>>

C12_ConnectOnClosed == []C12_ClosedState /\ [][C12_ClosedStep]_vars

\* a server listens, the client was closed, and the driver's Connect returned
\* ErrClientClosed
C12_Witness ==
    /\ userApi = "connect"
    /\ srvUp
    /\ connectRet = "closed"
    /\ \E k \in Closers : closePc[k] = "returned"

(***************************************************************************)
(* C13  With Reconnect on, ConnectWithRetry returns nil after an attempt   *)
(* that connected, or ErrClientClosed once the client is closed, and       *)
(* nothing else: a failed dial never ends it.  When the client is closed   *)
(* while it waits, its return is enabled at once, without the timer, and   *)
(* whichever case the select takes it does not dial again.  For the        *)
(* driver's call and for the one of the read loop's deferred function.     *)
(***************************************************************************)
WaitReturns == ConnectWait /\ userPc' = "failed"
RcWaitReturns(g) == CliRcWait(g) /\ lpPc'[g] = "done"

C13_RetryState ==
    /\ (userApi = "retry" /\ cfgReconnect) =>
          /\ connectRet \in {"none", "nil", "closed"}
          /\ connectRet = "nil" <=> userPc = "connected"
          /\ connectRet = "closed" <=> userPc = "failed"
          /\ connectRet = "closed" => cliDone
    /\ (userPc = "wait" /\ cliDone) => ENABLED WaitReturns
    /\ \A g \in Dials : (lpPc[g] = "rc_wait" /\ cliDone) => ENABLED RcWaitReturns(g)

C13_RetryStep ==
    /\ (userApi = "retry" /\ cfgReconnect /\ userPc' # userPc
            /\ userPc' \in {"connected", "failed"}) =>
          \/ userPc = "set" /\ connectRet' = "nil" /\ cliConn' = userConn
          \/ userPc = "wait" /\ cliDone /\ connectRet' = "closed"
    /\ (cliDone /\ userPc \in {"wait", "connect"}) =>
          /\ userPc' \in {"wait", "connect", "failed"}
          /\ userPc' # userPc => nDials' = nDials
    /\ \A g \in Dials :
         /\ (lpPc[g] \in {"rc_check", "rc_dial", "rc_set", "rc_wait"}
                /\ lpPc'[g] = "done") =>
               \/ lpPc[g] = "rc_set" /\ cliConn' = lpNew[g]
               \/ lpPc[g] = "rc_wait" /\ cliDone
         /\ (cliDone /\ lpPc[g] \in {"rc_wait", "rc_check"}) =>
               /\ lpPc'[g] \in {"rc_wait", "rc_check", "done"}
               /\ lpPc'[g] # lpPc[g] => nDials' = nDials

C13_RetryUntilConnectedOrClosed == []C13_RetryState /\ [][C13_RetryStep]_vars

\* no server listens: the driver's ConnectWithRetry failed to dial, waited,
\* and returned ErrClientClosed when the client was closed
C13_Witness ==
    /\ userApi = "retry"
    /\ cfgReconnect
    /\ ~srvUp /\ nOutages = 0
    /\ userPc = "failed"
    /\ connectRet = "closed"

(***************************************************************************)
(* C14  With Reconnect off, ConnectWithRetry is Connect: every step of the *)
(* driver's call is a step of Connect (the closed check, the dial, the     *)
(* assignment of c.conn and the start of the read loop), it makes one      *)
(* attempt, never waits, and returns what that attempt returned.           *)
(***************************************************************************)
C14_ConnectRelation ==
    \/ /\ userPc = "connect" /\ cliDone
       /\ userPc' = "failed" /\ connectRet' = "closed"
       /\ UNCHANGED <<userConn, nDials, cliConn, lpPc>>
    \/ /\ userPc = "connect" /\ ~cliDone
       /\ userPc' = "dial"
       /\ UNCHANGED <<connectRet, userConn, nDials, cliConn, lpPc>>
    \/ /\ userPc = "dial" /\ ~srvUp
       /\ userPc' = "failed" /\ connectRet' = "err"
       /\ UNCHANGED <<userConn, nDials, cliConn, lpPc>>
    \/ /\ userPc = "dial" /\ srvUp
       /\ userPc' = "set" /\ nDials' = nDials + 1 /\ userConn' = nDials'
       /\ UNCHANGED <<connectRet, cliConn, lpPc>>
    \/ /\ userPc = "set"
       /\ userPc' = "connected" /\ connectRet' = "nil"
       /\ cliConn' = userConn
       /\ lpPc' = [lpPc EXCEPT ![userConn] = "start"]
       /\ UNCHANGED <<userConn, nDials>>

C14_LikeConnectState ==
    ~cfgReconnect =>
        /\ userPc # "wait"
        /\ userPc = "connected" <=> connectRet = "nil"
        /\ userPc = "failed" <=> connectRet \in {"err", "closed"}

C14_LikeConnectStep ==
    ~cfgReconnect =>
        /\ (userPc \in {"connect", "dial", "set"} /\ userPc' # userPc) =>
              C14_ConnectRelation
        /\ userPc \in {"connected", "failed"} =>
              userPc' = userPc /\ connectRet' = connectRet

C14_RetryOffIsConnect == []C14_LikeConnectState /\ [][C14_LikeConnectStep]_vars

\* Reconnect is off and no server listens: ConnectWithRetry returned the
\* dial error of its only attempt
C14_Witness ==
    /\ userApi = "retry"
    /\ ~cfgReconnect
    /\ userPc = "failed"
    /\ connectRet = "err"
    /\ nDials = 0

(***************************************************************************)
(* C15  After Stop has returned on a started server the socket path is     *)
(* gone, the listener is closed, the shutdown signal is set, and every     *)
(* connection that was registered when Stop ran has its transport closed.  *)
(* Started: Stop found the listener that Start had stored.  The step in    *)
(* which Stop holds the lock closes the listener and every connection of   *)
(* the registry, and nothing opens them again.                             *)
(***************************************************************************)
C15_StoppedState ==
    \A k \in Stoppers :
        (stopPc[k] = "returned" /\ listenerCloses > 0) =>
            /\ ~sockFile
            /\ lstate = "closed"
            /\ sDone
            /\ \A c \in Conns : closedBy[c] = "stop" => (cDone[c] /\ tCloses[c] = 1)

C15_StopStep ==
    \A k \in Stoppers :
        (stopPc[k] = "closeall" /\ stopPc'[k] = "remove") =>
            /\ sDone
            /\ sListener => (lstate' = "closed" /\ ~sockFile')
            /\ \A c \in conns :
                 /\ cDone'[c] /\ tCloses'[c] = 1
                 /\ ~cDone[c] => closedBy'[c] = "stop"

C15_KeptStep ==
    /\ \A c \in Conns : cDone[c] => (cDone'[c] /\ tCloses'[c] = tCloses[c])
    /\ lstate = "closed" => lstate' = "closed"
    /\ sDone => sDone'

C15_StopReleasesEverything ==
    []C15_StoppedState /\ [][C15_StopStep /\ C15_KeptStep]_vars

\* Stop returned on a running server with a registered, open connection:
\* Stop was the one that closed it
C15_Witness ==
    /\ mainPc = "running"
    /\ \E k \in Stoppers : stopPc[k] = "returned"
    /\ listenerCloses = 1
    /\ \E c \in Conns : closedBy[c] = "stop" /\ c \in conns

(***************************************************************************)
(* C16  MaxMessageSize is the largest size of a single message: on a       *)
(* connection whose messages are each well-formed and no larger than       *)
(* MaxMessageSize, the size limit rejects nothing, however many messages   *)
(* came before: the limited reader of its loop never reports the limit,    *)
(* and the loop ends only after its peer closed the connection.            *)
(***************************************************************************)
WithinLimit(log) ==
    \A i \in 1..Len(log) : log[i].wf /\ ~LimitExceeded(WireSize(log[i]))

C16_LimitIsPerMessage ==
    /\ \A c \in Conns :
         WithinLimit(sentLog[c]) =>
             /\ ~LimitExceeded(consumed[c])
             /\ rlPc[c] \in {"close", "delete", "done"} => peerClosed[c]
    /\ \A g \in Dials :
         WithinLimit(downLog[g]) =>
             /\ ~LimitExceeded(lpCons[g])
             /\ lpPc[g] \in {"exit", "done"} => remoteClosed[g]

(***************************************************************************)
(* C17  A LimitedReader with limit L hands on what the underlying reader   *)
(* returned, count and error unchanged, while the bytes read through it    *)
(* in all are at most L; the first read that takes the total above L       *)
(* returns the limit error together with the count n of that read; the     *)
(* total is never reset, so every later read returns the limit error too.  *)
(***************************************************************************)
C17_ReadState ==
    LET total == lrPrev + lrIn.n
    IN /\ lrConsumed = total
       /\ total <= MaxMessageSize => lrRet = lrIn
       /\ total > MaxMessageSize => (lrRet.err = "limit" /\ lrRet.n = lrIn.n)

C17_ReadStep ==
    /\ lrConsumed' >= lrConsumed
    /\ lrConsumed > MaxMessageSize => lrRet'.err = "limit"

C17_LimitedReader == []C17_ReadState /\ [][C17_ReadStep]_vars

\* a read crossed the limit, and a later read that got nothing but the end
\* of the stream returned the limit error as well
C17_Witness ==
    /\ lrPrev > MaxMessageSize
    /\ lrIn = [n |-> 0, err |-> "eof"]
    /\ lrRet = [n |-> 0, err |-> "limit"]

(***************************************************************************)
(* C18  The context store of a connection, and of a client, is a map from  *)
(* keys to values: GetContext(k) returns the value of the latest           *)
(* SetContext(k, .) on that store with found = true, and found = false     *)
(* when k was never set there; SetContext(k, .) changes no other key of    *)
(* its store and no key of any other store.                                *)
(***************************************************************************)
StoreOf(s) == IF s = ClientStore THEN cliCtx ELSE connCtx[s]

Latest(s, k) ==
    IF ctxLast[s][k] = "unset" THEN NoValue
    ELSE [val |-> ctxLast[s][k], ok |-> TRUE]

Lookup(mp, k) == IF k \in DOMAIN mp THEN mp[k] ELSE "unset"

C18_StoreState ==
    /\ \A s \in Stores, k \in Keys : Lookup(StoreOf(s), k) = ctxLast[s][k]
    /\ ctxAsked # <<>> => ctxGot.ok = (ctxGot.val # "nil")

C18_GetStep ==
    (ctxAsked' # ctxAsked \/ ctxGot' # ctxGot) =>
        /\ ctxGot' = Latest(ctxAsked'[1], ctxAsked'[2])
        /\ UNCHANGED <<connCtx, cliCtx, ctxLast>>

C18_SetStep ==
    (connCtx' # connCtx \/ cliCtx' # cliCtx) =>
        \E s \in Stores, k \in Keys :
            /\ Lookup(StoreOf(s)', k) \in CtxValues
            /\ \A s2 \in Stores, k2 \in Keys :
                 <<s2, k2>> # <<s, k>> =>
                     Lookup(StoreOf(s2)', k2) = Lookup(StoreOf(s2), k2)

C18_ContextStore == []C18_StoreState /\ [][C18_GetStep /\ C18_SetStep]_vars

\* GetContext on a connection returned the value set there for a key that
\* the other connection and the client hold with another value, while the
\* connection's other key was never set
C18_Witness ==
    /\ ctxAsked = <<1, "foo">>
    /\ ctxGot = [val |-> "bar", ok |-> TRUE]
    /\ ctxLast[2]["foo"] = "42"
    /\ ctxLast[ClientStore]["foo"] = "42"
    /\ ctxLast[1]["user_id"] = "unset"

(***************************************************************************)
(* C19  Handle(t, h2) after Handle(t, h1) replaces the binding of t and    *)
(* nothing else: the second registration leaves every other type as it     *)
(* was; every lookup of t that runs after it returned yields h2, and the   *)
(* invocation that follows is h2's (it fails and writes no reply, where    *)
(* h1 replies).  Server and client.                                        *)
(***************************************************************************)
C19_ReboundState ==
    /\ mainPc = "rebound" =>
          sHandlers = [t \in Types |-> IF t = "mystery" THEN "none" ELSE "fail"]
    /\ userPc = "rebound" =>
          cliHandlers = [t \in Types |-> IF t = "mystery" THEN "none" ELSE "fail"]

C19_RebindStep ==
    /\ (mainPc = "running" /\ mainPc' = "rebound") =>
          /\ sHandlers["echo"] = "echo"
          /\ sHandlers'["echo"] = "fail"
          /\ \A t \in Types \ {"echo"} : sHandlers'[t] = sHandlers[t]
    /\ (userPc = "connected" /\ userPc' = "rebound") =>
          /\ cliHandlers["echo"] = "echo"
          /\ cliHandlers'["echo"] = "fail"
          /\ \A t \in Types \ {"echo"} : cliHandlers'[t] = cliHandlers[t]

C19_LookupStep ==
    /\ \A c \in Conns :
         /\ (mainPc = "rebound" /\ rlPc[c] = "lookup" /\ rlPc'[c] # "lookup") =>
               /\ rlPc'[c] = "handler"
               /\ curH'[c] = "fail"
         /\ (mainPc = "running" /\ mainPc' = "running"
                /\ rlPc[c] = "lookup" /\ rlPc'[c] # "lookup") =>
               curH'[c] = cur[c].type
         /\ (rlPc[c] = "handler" /\ rlPc'[c] # "handler") =>
               /\ handled'[c][Len(handled'[c])].err =
                      (curH[c] = "fail" \/ (curH[c] = "echo" /\ outWire'[c] = outWire[c]))
               /\ curH[c] = "fail" => outWire'[c] = outWire[c]
    /\ \A g \in Dials :
         /\ (userPc = "rebound" /\ lpPc[g] = "lookup" /\ lpPc'[g] # "lookup") =>
               /\ lpPc'[g] = "handler"
               /\ lpH'[g] = "fail"
         /\ (userPc = "connected" /\ userPc' = "connected"
                /\ lpPc[g] = "lookup" /\ lpPc'[g] # "lookup") =>
               lpH'[g] = lpCur[g].type
         /\ (lpPc[g] = "handler" /\ lpPc'[g] # "handler") =>
               cliHandled'[g][Len(cliHandled'[g])].err = (lpH[g] = "fail")

C19_HandleReplaces ==
    []C19_ReboundState /\ [][C19_RebindStep /\ C19_LookupStep]_vars

\* one open connection got two "echo" messages: the first went to the handler
\* registered first, which replied, the second to the one registered later
C19_Witness ==
    \/ /\ mainPc = "rebound"
       /\ \E c \in Conns :
            /\ Len(handled[c]) = 2
            /\ handled[c][1] = [type |-> "echo", val |-> <<"h">>, err |-> FALSE]
            /\ handled[c][2] = [type |-> "echo", val |-> <<"h">>, err |-> TRUE]
            /\ Len(outWire[c]) = 1
            /\ WriteOk(c)
    \/ /\ userPc = "rebound"
       /\ \E g \in Dials :
            /\ Len(cliHandled[g]) = 2
            /\ cliHandled[g][1] = [type |-> "echo", val |-> <<"h">>, err |-> FALSE]
            /\ cliHandled[g][2] = [type |-> "echo", val |-> <<"h">>, err |-> TRUE]

(***************************************************************************)
(* C20  Broadcast returns an error exactly when it cannot build the        *)
(* envelope, that is when the payload does not serialise, and then it has  *)
(* written nothing to any connection; a Send error inside its loop never   *)
(* makes it return an error.                                               *)
(***************************************************************************)
C20_ErrorState ==
    /\ bcRet # "none" <=> bcPc = "done"
    /\ bcPc = "done" => (bcRet = "err" <=> bcPayload = BadPayload)
    /\ bcPayload = BadPayload =>
          /\ bcGot = {} /\ bcSnap = {} /\ sMuR = 0
          /\ \A c \in Conns : Announcements(c) = 0

C20_ErrorStep ==
    (bcRet = "none" /\ bcRet' = "err") =>
        /\ bcPayload = BadPayload
        /\ outWire' = outWire
        /\ UNCHANGED <<sMuR, bcSnap, bcTodo, bcGot, closeVars, conns>>

C20_BroadcastError == []C20_ErrorState /\ [][C20_ErrorStep]_vars

\* Broadcast returned an error while a connection with a working transport
\* was registered, and wrote nothing to it
C20_Witness ==
    /\ bcRet = "err"
    /\ \E c \in conns : WriteOk(c) /\ outWire[c] = <<>>


(***************************************************************************)
(* C21  The envelope round trip: for every serializable value v,           *)
(* NewMessage(t, v) succeeds, the message's type is t and UnmarshalPayload *)
(* gives back a value equal to v; repeated calls give the same value and   *)
(* leave the message unchanged.                                            *)
(* As stated the round trip covers every serializable value.  json.Marshal *)
(* serializes a string holding a byte that is no UTF-8 without error and   *)
(* writes the replacement character for it, so the decoded value differs   *)
(* from v.  C21_RoundTripEvery is the statement as made,                   *)
(* C21_RoundTripLossless the statement for the values JSON represents      *)
(* without loss.                                                           *)
(***************************************************************************)
C21_Built ==
    /\ envErr => MarshalFails(envV)
    /\ envMsg # NoMsg => ~MarshalFails(envV) /\ envMsg.type = envT

C21_Repeatable == \A i, j \in 1..Len(envOut) : envOut[i] = envOut[j]

C21_DecodeStep == envMsg # NoMsg => envMsg' = envMsg

C21_RoundTripEvery ==
    \A i \in 1..Len(envOut) : ~envOut[i].err /\ envOut[i].val = envV

C21_LosslessState ==
    /\ C21_Built
    /\ C21_Repeatable
    /\ ValidUtf8(envV) => C21_RoundTripEvery

C21_RoundTripLossless == []C21_LosslessState /\ [][C21_DecodeStep]_vars

\* a value with a quote and a backslash was decoded twice
C21_Witness ==
    /\ envV = <<DQ, BS>>
    /\ envT = "mystery"
    /\ Len(envOut) = 2
    /\ envOut[2].val = <<DQ, BS>>


(***************************************************************************)
(* C22  Registry lifecycle: each accepted connection is added to the       *)
(* registry exactly once and removed exactly once, by the teardown of its  *)
(* own read loop, which closes the transport first; the registry holds     *)
(* only connections whose read loop has not finished tearing down.         *)
(***************************************************************************)
C22_RegistryState ==
    \A c \in Conns :
        /\ c \in conns => rlPc[c] \notin {"none", "done"} /\ dial[c] = "accepted"
        /\ rlPc[c] = "done" => c \notin conns /\ cDone[c] /\ tCloses[c] = 1
        /\ rlPc[c] \notin {"none", "done"} => c \in conns

C22_RegistryStep ==
    \A c \in Conns :
        /\ c \notin conns /\ c \in conns' =>
               rlPc[c] = "none" /\ accPc = "register" /\ accCur = c
        /\ c \in conns /\ c \notin conns' =>
               rlPc[c] = "delete" /\ rlPc'[c] = "done" /\ tCloses[c] = 1

C22_RegistryLifecycle == []C22_RegistryState /\ [][C22_RegistryStep]_vars

\* one connection went through its whole life while another is registered
C22_Witness ==
    \E c, d \in Conns :
        /\ rlPc[c] = "done"
        /\ c \notin conns
        /\ d \in conns
        /\ closedBy[c] = "loop"


(***************************************************************************)
(* C23  A framing error on one connection (bytes that are no JSON, or the  *)
(* size limit exceeded) ends only that connection's read loop and removes  *)
(* only that connection from the registry: the accept loop keeps           *)
(* accepting, every other registered connection stays open and its loop    *)
(* keeps dispatching.                                                      *)
(***************************************************************************)
\* the loop of c has left its for loop on bytes that are no JSON or on the
\* limit error of its reader
FramingError(c) ==
    /\ rlPc[c] \in {"close", "delete", "done"}
    /\ \/ LimitExceeded(consumed[c])
       \/ inWire[c] # <<>> /\ ~Head(inWire[c]).wf

C23_OthersState ==
    \A c \in Conns :
        FramingError(c) =>
            /\ accPc \in {"accept", "register"}
            /\ lstate = "open"
            /\ \A d \in Conns \ {c} :
                 /\ rlPc[d] \in {"select", "read", "lookup", "handler"} =>
                        d \in conns /\ tCloses[d] = 0 /\ ~cDone[d]
                 /\ rlPc[d] = "select" => ENABLED SrvSelect(d)
                 /\ rlPc[d] = "lookup" => ENABLED SrvLookup(d)
                 /\ rlPc[d] = "handler" => ENABLED SrvHandler(d)
                 /\ dial[d] = "backlog" /\ accPc = "accept" => ENABLED AcceptConn(d)

C23_OnlyThatStep ==
    \A c \in Conns :
        rlPc'[c] # rlPc[c] /\ rlPc'[c] \in {"close", "delete", "done"} =>
            /\ accPc' = accPc
            /\ lstate' = lstate
            /\ conns \ {c} = conns' \ {c}
            /\ \A d \in Conns \ {c} :
                 /\ rlPc'[d] = rlPc[d]
                 /\ cDone'[d] = cDone[d]
                 /\ tCloses'[d] = tCloses[d]
                 /\ inWire'[d] = inWire[d]
                 /\ buffered'[d] = buffered[d]

C23_FramingErrorIsLocal == []C23_OthersState /\ [][C23_OnlyThatStep]_vars

\* connection 1 is gone after bytes that are no JSON, connection 2 is
\* registered, was accepted with the accept loop still running, and its
\* loop is about to call a handler
C23_Witness ==
    /\ FramingError(1)
    /\ rlPc[1] = "done"
    /\ 1 \notin conns
    /\ 2 \in conns
    /\ rlPc[2] = "handler"
    /\ accPc = "accept"



(***************************************************************************)
(* C24  An accept failure while the shutdown signal is not set does not    *)
(* end the accept loop: a connection arriving later is still accepted and  *)
(* registered with a read loop.  An accept failure after the signal is set *)
(* ends it: after Stop has closed the listener of the running accept loop  *)
(* the loop eventually terminates, and a terminated loop registers         *)
(* nothing.                                                                *)
(***************************************************************************)
C24_AcceptState ==
    /\ accPc = "done" => sDone
    /\ \A c \in Conns :
         (accPc = "accept" /\ lstate = "open" /\ dial[c] = "backlog") =>
             ENABLED AcceptConn(c)
    /\ accPc = "register" => ENABLED AcceptRegister \/ sMuR > 0

C24_AcceptStep ==
    /\ (accPc = "accept" /\ accPc' = "done") => sDone
    /\ accPc = "done" => (accPc' = "done" /\ conns' \subseteq conns)
    /\ \A c \in Conns :
         (c \notin conns /\ c \in conns') => rlPc'[c] = "select"

C24_Stopped == \E k \in Stoppers : stopPc[k] = "returned" /\ listenerCloses > 0

C24_AcceptLoop ==
    /\ []C24_AcceptState
    /\ [][C24_AcceptStep]_vars
    /\ (C24_Stopped ~> accPc = "done")

\* the accept loop has ended after Stop, having registered a connection
\* while it ran
C24_Witness ==
    /\ accPc = "done"
    /\ C24_Stopped
    /\ \E c \in Conns : rlPc[c] # "none"


(***************************************************************************)
(* C25  If Start fails (the old socket file cannot be removed, the bind    *)
(* fails, or setting the permission fails) it returns an error, starts no  *)
(* accept loop and leaves no open listener behind; only on success is the  *)
(* listener stored and the accept loop started.                            *)
(***************************************************************************)
C25_StartState ==
    /\ startRet = "err" =>
           /\ mainPc = "failed"
           /\ accPc = "off"
           /\ lstate # "open"
           /\ ~sListener
           /\ conns = {}
    /\ (sListener \/ accPc # "off") => (startRet = "nil" /\ lstate # "none")
    /\ startRet = "nil" => (sListener /\ accPc # "off")

C25_StartStep ==
    /\ startRet = "err" => startRet' = "err"
    /\ (mainPc = "start" /\ mainPc' = "failed") => startRet' = "err"
    /\ (mainPc = "start" /\ mainPc' = "assign") => (lstate' = "open" /\ sockFile')

C25_StartFailure == []C25_StartState /\ [][C25_StartStep]_vars

\* Start returned an error after the bind: the listener it made is closed
C25_Witness ==
    /\ startRet = "err"
    /\ lstate = "closed"
    /\ accPc = "off"


(***************************************************************************)
(* C26  When a read deadline is configured and expires while the read loop *)
(* waits for the next message, the server's loop exits and the connection  *)
(* is closed and removed; the client's loop exits and, with reconnect      *)
(* enabled, reconnects.  A connection that stays idle longer than the read *)
(* timeout therefore does not stay open: once the read loop of a           *)
(* connection has ended, without its peer or a Close having ended it, this *)
(* end of its transport is closed.                                         *)
(***************************************************************************)
C26_IdleIsClosed ==
    /\ \A c \in Conns :
         (rlPc[c] = "done" /\ ~peerClosed[c]) => (tCloses[c] = 1 /\ c \notin conns)
    /\ \A g \in Dials :
         (lpPc[g] = "done" /\ lpConn[g] # 0 /\ ~remoteClosed[lpConn[g]] /\ ~cliDone) =>
             cliCloses[lpConn[g]] > 0


(***************************************************************************)
(* C27  Closed is terminal for the client: in every state after Close has  *)
(* returned the client holds no connection and no transport the client     *)
(* opened is left open, also when Close runs concurrently with a Connect   *)
(* or with a reconnect attempt that has passed its closed check.           *)
(***************************************************************************)
C27_ClosedIsTerminal ==
    (\E k \in Closers : closePc[k] = "returned") =>
        /\ cliConn = 0
        /\ \A t \in Dialed : cliCloses[t] > 0


(***************************************************************************)
(* C28  The client's read loop never uses a cleared (nil) connection       *)
(* reference: under every interleaving with Close, or with another loop's  *)
(* teardown clearing the reference, the loop builds its decoder and sets   *)
(* its read deadline on a non-nil connection, so no read loop crashes the  *)
(* process.                                                                *)
(***************************************************************************)
C28_NoNilUse == \A g \in Dials : lpPc[g] # "panic"


(***************************************************************************)
(* C29  A client has at most one connection and at most one active read    *)
(* loop at any time, and the read loop reads from the connection stored as *)
(* current: a Connect on a connected client, or during the read loop's     *)
(* reconnect, never leaves a second open transport or a second read loop,  *)
(* and the teardown of a read loop never clears the reference of a newer   *)
(* connection.                                                             *)
(***************************************************************************)
\* transports a Connect has dialed and not yet stored in c.conn
BeingStored ==
    {t \in Dialed : (userPc = "set" /\ userConn = t)
                        \/ \E g \in Dials : lpPc[g] = "rc_set" /\ lpNew[g] = t}

\* transports that neither end has closed, a Connect in progress aside
OpenTransports ==
    {t \in Dialed : cliCloses[t] = 0 /\ ~remoteClosed[t]} \ BeingStored

\* read loops that have not reached their deferred function
ActiveLoops ==
    {g \in Dials : lpPc[g] \in {"start", "select", "deadline", "read", "lookup", "handler"}}

\* the last conjunct: a teardown about to clear c.conn finds there the
\* connection of its own loop
C29_OneConnectionOneLoop ==
    /\ Cardinality(OpenTransports) <= 1
    /\ Cardinality(ActiveLoops) <= 1
    /\ \A g \in ActiveLoops :
         (lpPc[g] # "start" /\ cliConn # 0) => lpConn[g] = cliConn
    /\ \A g \in Dials :
         lpPc[g] = "clear" => cliConn \in {0, lpConn[g]}


(***************************************************************************)
(* C30  When the client's read loop exits while its transport is still     *)
(* open (framing error, size limit, read timeout) and reconnect is         *)
(* enabled, the old transport is closed before or when the reference is    *)
(* cleared: a transport that its read loop has given up for a reconnect,   *)
(* and that the server has not closed, is closed at the client's end, and  *)
(* the client has at most one open transport.                              *)
(***************************************************************************)
C30_OldTransportClosed ==
    /\ \A g \in Dials :
         (/\ lpPc[g] \in {"rc_check", "rc_dial", "rc_set", "rc_wait", "done"}
          /\ lpConn[g] # 0
          /\ ~remoteClosed[lpConn[g]]
          /\ cfgReconnect
          /\ ~cliDone) =>
             cliCloses[lpConn[g]] > 0
    /\ Cardinality(OpenTransports) <= 1


(***************************************************************************)
(* C31  Stopped is terminal for the server: in every state after Stop has  *)
(* returned, every listener the server opened is closed, the socket path   *)
(* is absent (Stop's calls having succeeded) and no accept loop is running *)
(* (one that is still there sits on the closed listener and is about to    *)
(* return), for every order and interleaving of Start and Stop.            *)
(***************************************************************************)
C31_StoppedIsTerminal ==
    (\E k \in Stoppers : stopPc[k] = "returned") =>
        /\ lstate # "open"
        /\ stopErr = "nil" => ~sockFile
        /\ accPc \notin {"off", "done"} => lstate = "closed"


(***************************************************************************)
(* C32  No connection survives shutdown: a connection accepted before the  *)
(* listener closed and registered after Stop went through the registry is  *)
(* still closed and removed by its own read loop, which finds the shutdown *)
(* signal set at its first select.  After Stop on a started server the     *)
(* registry eventually becomes empty and stays empty, handlers returning.  *)
(***************************************************************************)
C32_Stopped == \E k \in Stoppers : stopPc[k] = "returned" /\ listenerCloses > 0

C32_SelectStep ==
    \A c \in Conns :
        (rlPc[c] = "select" /\ sDone /\ rlPc'[c] # "select") => rlPc'[c] = "close"

C32_RemovedStep ==
    \A c \in Conns :
        (c \in conns /\ c \notin conns') => (cDone[c] /\ tCloses[c] = 1)

C32_NoneSurvives ==
    /\ [][C32_SelectStep /\ C32_RemovedStep]_vars
    /\ (C32_Stopped ~> [](conns = {}))

\* Stop has returned, and a connection it never saw is registered and open
C32_Witness ==
    /\ C32_Stopped
    /\ \E c \in conns : ~cDone[c] /\ tCloses[c] = 0 /\ rlPc[c] = "select"


(***************************************************************************)
(* C33  Stop always returns: under every interleaving of Stop with         *)
(* Broadcast, the accept loop, the read loops and their handlers, a Stop   *)
(* that was called eventually returns; it does not wait forever behind a   *)
(* Broadcast that holds the registry's read lock while its write to a peer *)
(* that does not read is blocked.                                          *)
(***************************************************************************)
C33_StopReturns == (stopPc[1] # "idle") ~> (stopPc[1] = "returned")

====
